---- MODULE Spec2Model ----
(***************************************************************************)
(* Parser, geocoding client, geocoding cache, caching wrapper, validation  *)
(* engine and query layer of the school-map data pipeline                  *)
(* (utils/dataParser.ts, utils/geocoder.ts, utils/dataValidator.ts,        *)
(* utils/exportUtils.ts and utils/performanceOptimizations.ts).            *)
(*                                                                         *)
(* The module holds several specifications over one set of variables; a    *)
(* specification leaves the variables of the other components at their     *)
(* constructed values.                                                     *)
(*   SpecRate   NominatimGeocoder.geocodeAddress called concurrently       *)
(*   SpecCache  GeocodingCache driven by set, get, has and clear           *)
(*   SpecKeys   one cache write followed by reads, over all short addresses*)
(*   SpecCached CachedGeocoder.geocodeAddress called concurrently          *)
(*   SpecRecord SchoolDataValidator.validateSchool on one school           *)
(*   SpecBatch  SchoolDataValidator.validateSchoolData on a list of schools*)
(*   FairBatch  the same, every enabled step of the event loop being taken *)
(*   SpecGeoBatch NominatimGeocoder.geocodeBatch next to another caller    *)
(*   SpecFilter filterSchools on lists of schools                          *)
(*   SpecQuery  filterSchools and the memoized optimizedSchoolFilter       *)
(*   SpecSearch the memoized optimizedSchoolSearch                         *)
(*   SpecMemo   optimizedSchoolFilter and optimizedSchoolSearch over time  *)
(*   SpecParse  parseSchoolData on a document, line by line                *)
(*   SpecShare  memoized searches whose queries differ in case only        *)
(*   SpecConfidence geocodeAddress answered with candidates of every kind  *)
(*   SpecLoad   App loadData: a document is parsed, its schools validated  *)
(*                                                                         *)
(* Strings that the code measures, trims, normalises or searches are       *)
(* sequences of one-character strings, the text of a parsed document is a  *)
(* sequence of tokens; an optional value is a sequence of length 0 or 1.   *)
(* Confidences are in hundredths.                                          *)
(***************************************************************************)
EXTENDS Integers, Sequences, FiniteSets, TLC

VARIABLES
    timeSinceLastRequest, \* Date.now() - lastRequestTime, saturated at rateLimitDelay
    callers,              \* per caller: where its geocodeAddress call stands
    requestGaps,          \* observed: ms between a provider request and the one before it
    lastFetch,            \* observed: the last provider response and what geocodeAddress made of it
    geoBatch,             \* where a NominatimGeocoder.geocodeBatch call stands
    batchTrace,           \* observed: the provider requests of that geocodeBatch call
    cache,                \* GeocodingCache.cache: the Map's entries in iteration order
    lastOp,               \* observed: the last operation applied to the cache or its wrapper
    resolves,             \* per address: the CachedGeocoder calls that await the client
    original,             \* observed: the schools as they were passed to the validator
    schools,              \* the School objects under validation (validateSchool writes to them)
    tasks,                \* per school: where its validateSchool call stands
    batchPc,              \* where validateSchoolData stands
    batchI,               \* its loop variable i
    validationResults,    \* its validationResults
    allIssues,            \* its allIssues
    geocodingErrors,      \* its geocodingErrors
    summary,              \* the DataValidationSummary it returned, if it has
    records,              \* the School[] the query layer is called on
    memoCache,            \* memoCache of performanceOptimizations: key, value and age of each entry
    lastCall,             \* observed: the last call of a filter or search and its result
    lines,                \* parseSchoolData: the lines of the markdown content
    parsePc,              \* where parseSchoolData stands
    lineIndex,            \* its loop variable i (counted from 1)
    currentSchool,        \* its currentSchool, null being <<>>
    schoolIndex,          \* its schoolIndex
    parsedSchools,        \* its schools
    colorCoding           \* its colorCoding, as the entries of the object in insertion order

rateVars == <<timeSinceLastRequest, callers, requestGaps, lastFetch, geoBatch, batchTrace>>
cacheVars == <<cache, lastOp>>
wrapVars == <<resolves>>
schoolVars == <<original, schools, tasks>>
batchVars == <<batchPc, batchI, validationResults, allIssues, geocodingErrors, summary>>
queryVars == <<records, memoCache, lastCall>>
parseVars ==
    <<lines, parsePc, lineIndex, currentSchool, schoolIndex, parsedSchools, colorCoding>>
vars == <<rateVars, cacheVars, wrapVars, schoolVars, batchVars, queryVars, parseVars>>

\* What the actions of one component leave alone.
nonRateVars == <<cacheVars, wrapVars, schoolVars, batchVars, queryVars, parseVars>>
nonCacheVars == <<rateVars, wrapVars, schoolVars, batchVars, queryVars, parseVars>>
nonWrapVars == <<rateVars, schoolVars, batchVars, queryVars, parseVars>>
nonSchoolVars == <<rateVars, lastOp, wrapVars, queryVars, parseVars>>
nonQueryVars == <<rateVars, cacheVars, wrapVars, schoolVars, batchVars, parseVars>>
nonParseVars == <<rateVars, cacheVars, wrapVars, schoolVars, batchVars, queryVars>>

Min(a, b) == IF a < b THEN a ELSE b
Max(a, b) == IF a > b THEN a ELSE b

\* No call of a filter or search yet
NoCall ==
    [op |-> "none", list |-> <<>>, filters |-> <<>>, query |-> <<>>, result |-> <<>>,
     cached |-> FALSE, found |-> <<>>]

\* const memoCache = new Map(), and no school loaded
QueryConstructed ==
    /\ records = <<>>
    /\ memoCache = <<>>
    /\ lastCall = NoCall

\* parseSchoolData has not been called.
ParseNotCalled ==
    /\ lines = <<>>
    /\ parsePc = "idle"
    /\ lineIndex = 1
    /\ currentSchool = <<>>
    /\ schoolIndex = 0
    /\ parsedSchools = <<>>
    /\ colorCoding = <<>>

----------------------------------------------------------------------------
(* NominatimGeocoder: provider responses and errors                        *)

Coord(la, ln) == [lat |-> la, lng |-> ln]

\* GeocodingError.code
GeocodingErrorCodes == {"NETWORK_ERROR", "RATE_LIMIT", "NO_RESULTS", "INVALID_ADDRESS"}

GeocodingError(code) == [code |-> code]

\* A JavaScript error: its name and its message, the message as a sequence
\* of words; a phrase that handleError looks for is one word.
JsError(name, message) == [name |-> name, message |-> message]

\* String.prototype.includes on messages: the words of needle occur in
\* message, in a row
Includes(message, needle) ==
    \E i \in 0..(Len(message) - Len(needle)) :
        SubSeq(message, i + 1, i + Len(needle)) = needle

\* Entries of the provider's candidate list (hundredths for importance).
Candidates ==
    {[lat |-> 51, lon |-> 0, class |-> "amenity", type |-> "school",
      importance |-> 70, addresstype |-> "amenity"],
     [lat |-> 52, lon |-> -1, class |-> "building", type |-> "yes",
      importance |-> 0, addresstype |-> "house"]}

\* fetch rejected with an error
Rejected(error) == [type |-> "rejected", error |-> error]

\* fetch resolved with a response of this status, status text and body
Response(status, statusText, body) ==
    [type |-> "response", status |-> status, statusText |-> statusText, body |-> body]

\* What the provider or the transport can answer: a rejected fetch (as the
\* runtime and as the tests produce it), HTTP 429 and 500, and HTTP 200
\* with a list of no or one candidate, with null, with a body that is not
\* JSON and with a JSON object that is not a list.
Responses ==
    {Rejected(JsError("TypeError", <<"fetch", "failed">>)),
     Rejected(JsError("Error", <<"Network error">>)),
     Response(429, <<"Too", "Many", "Requests">>, [json |-> "none"]),
     Response(500, <<"Internal", "Server", "Error">>, [json |-> "none"]),
     Response(200, <<"OK">>, [json |-> "array", items |-> <<>>]),
     Response(200, <<"OK">>, [json |-> "null"]),
     Response(200, <<"OK">>, [json |-> "invalid"]),
     Response(200, <<"OK">>, [json |-> "object"])}
    \cup {Response(200, <<"OK">>, [json |-> "array", items |-> <<c>>]) : c \in Candidates}

\* Mutant of calculateConfidence: nothing is added for a school.
calculateConfidence_WithoutSchool(result) ==
    LET base == 50
        importance == IF result.importance # 0 THEN (result.importance * 20) \div 100 ELSE 0
        amenity == IF result.addresstype = "amenity" THEN 20 ELSE 0
        house == IF result.addresstype = "house" THEN 10 ELSE 0
        confidence == base + importance + amenity + house
    IN  IF confidence < 100 THEN confidence ELSE 100

\* NominatimGeocoder.calculateConfidence, in hundredths
calculateConfidence(result) ==
    LET base == 50
        school == IF result.class = "amenity" /\ result.type = "school" THEN 30 ELSE 0
        importance == IF result.importance # 0 THEN (result.importance * 20) \div 100 ELSE 0
        amenity == IF result.addresstype = "amenity" THEN 20 ELSE 0
        house == IF result.addresstype = "house" THEN 10 ELSE 0
        confidence == base + school + importance + amenity + house
    IN  IF confidence < 100 THEN confidence ELSE 100

\* The error thrown inside the try block of geocodeAddress, if any
Thrown(response) ==
    IF response.type = "rejected" THEN <<response.error>>
    ELSE IF response.status \notin 200..299                      \* !response.ok
    THEN <<JsError("Error", <<"HTTP", ToString(response.status), ":">>
                             \o response.statusText)>>
    ELSE IF response.body.json = "invalid"                        \* response.json() rejects
    THEN <<JsError("SyntaxError", <<"Unexpected", "token">>)>>
    ELSE IF \/ response.body.json = "null"                        \* !data
            \/ response.body.json = "array" /\ response.body.items = <<>>
    THEN <<JsError("Error", <<"No results", "found", "for", "address">>)>>
    ELSE IF response.body.json = "object"                         \* data[0] is undefined
    THEN <<JsError("TypeError", <<"Cannot", "read", "properties", "of", "undefined">>)>>
    ELSE <<>>

\* NominatimGeocoder.handleError
handleError(error) ==
    IF Includes(error.message, <<"rate limit">>) \/ Includes(error.message, <<"429">>)
    THEN GeocodingError("RATE_LIMIT")
    ELSE IF Includes(error.message, <<"No results">>)
    THEN GeocodingError("NO_RESULTS")
    ELSE IF \/ error.name = "TypeError"
            \/ Includes(error.message, <<"Network error">>)
            \/ Includes(error.message, <<"fetch">>)
    THEN GeocodingError("NETWORK_ERROR")
    ELSE GeocodingError("INVALID_ADDRESS")

\* What geocodeAddress returns (a GeocodingResult) or throws (a
\* GeocodingError) on a response
Outcome(response) ==
    IF Thrown(response) # <<>> THEN handleError(Thrown(response)[1])
    ELSE LET result == response.body.items[1]
         IN  [coordinates |-> Coord(result.lat, result.lon),
              confidence |-> <<calculateConfidence(result)>>]

\* The outcome is a GeocodingError
Threw(outcome) == "code" \in DOMAIN outcome

----------------------------------------------------------------------------
(* NominatimGeocoder: rate limiter                                         *)

\* private readonly rateLimitDelay = 1000
rateLimitDelay == 1000

\* Granularity of the clock, in ms.
TickMs == 500

\* Number of concurrent callers of one NominatimGeocoder.
NumCallers == 3

Callers == 1..NumCallers

IdleCaller == [phase |-> "idle", remaining |-> 0]

\* The caller through which geocodeBatch calls geocodeAddress.
BatchCaller == 1

\* No provider response yet
NoFetch == [response |-> <<>>, outcome |-> <<>>]

\* geocodeBatch has not been called
NoGeoBatch == [pc |-> "idle", addresses |-> <<>>, index |-> 0, results |-> <<>>]

\* No request of a geocodeBatch call yet: the addresses requested, the ms
\* since the last of these requests (saturated at rateLimitDelay) and the
\* ms observed between two of them in a row.
NoBatchTrace == [requested |-> <<>>, since |-> rateLimitDelay, gaps |-> {}]

\* lastRequestTime = 0 and Date.now() is ms since the epoch: the first call
\* sees timeSinceLastRequest >= rateLimitDelay.
RateConstructed ==
    /\ timeSinceLastRequest = rateLimitDelay
    /\ callers = [c \in Callers |-> IdleCaller]
    /\ requestGaps = {}
    /\ lastFetch = NoFetch
    /\ geoBatch = NoGeoBatch
    /\ batchTrace = NoBatchTrace

\* this.lastRequestTime = Date.now(), after which the request is issued
IssueRequest(c) ==
    /\ callers' = [callers EXCEPT ![c] = [phase |-> "fetching", remaining |-> 0]]
    /\ requestGaps' = requestGaps \cup {timeSinceLastRequest}
    /\ timeSinceLastRequest' = 0

\* geocodeAddress up to its first suspension: enforceRateLimit reads the
\* clock and either arms a timer for the rest of the delay, or stamps
\* lastRequestTime and goes on to fetch.
EnforceRateLimit(c) ==
    IF timeSinceLastRequest < rateLimitDelay
    THEN /\ callers' = [callers EXCEPT ![c] =
                [phase |-> "sleeping",
                 remaining |-> rateLimitDelay - timeSinceLastRequest]]
         /\ UNCHANGED <<timeSinceLastRequest, requestGaps>>
    ELSE IssueRequest(c)

\* A request of geocodeBatch is issued for this address
Traced(address) ==
    [requested |-> Append(batchTrace.requested, address),
     since |-> 0,
     gaps |-> IF batchTrace.requested = <<>> THEN batchTrace.gaps
              ELSE batchTrace.gaps \cup {batchTrace.since}]

\* geocodeAddress called by a caller other than geocodeBatch
GeocodeAddress(c) ==
    /\ callers[c].phase = "idle"
    /\ c = BatchCaller => geoBatch.pc = "idle"
    /\ EnforceRateLimit(c)
    /\ UNCHANGED <<lastFetch, geoBatch, batchTrace, nonRateVars>>

\* The setTimeout of enforceRateLimit fires: lastRequestTime = Date.now(),
\* then the request is issued.
TimerFire(c) ==
    /\ callers[c].phase = "sleeping"
    /\ callers[c].remaining = 0
    /\ IssueRequest(c)
    /\ batchTrace' = IF c = BatchCaller /\ geoBatch.pc = "awaiting"
                     THEN Traced(geoBatch.addresses[geoBatch.index + 1])
                     ELSE batchTrace
    /\ UNCHANGED <<lastFetch, geoBatch, nonRateVars>>

\* The provider answers or the transport fails; geocodeAddress returns or
\* throws
Settle(c, response) ==
    /\ callers[c].phase = "fetching"
    /\ callers' = [callers EXCEPT ![c] = IdleCaller]
    /\ lastFetch' = [response |-> <<response>>, outcome |-> <<Outcome(response)>>]
    /\ UNCHANGED <<timeSinceLastRequest, requestGaps>>

\* geocodeAddress settles for a caller other than geocodeBatch
FetchSettle(c) ==
    /\ c = BatchCaller => geoBatch.pc = "idle"
    /\ \E response \in Responses : Settle(c, response)
    /\ UNCHANGED <<geoBatch, batchTrace, nonRateVars>>

\* TickMs of wall-clock time pass.
Tick ==
    /\ timeSinceLastRequest' = Min(timeSinceLastRequest + TickMs, rateLimitDelay)
    /\ callers' = [c \in Callers |->
          IF callers[c].phase = "sleeping"
          THEN [callers[c] EXCEPT !.remaining = Max(callers[c].remaining - TickMs, 0)]
          ELSE callers[c]]
    /\ batchTrace' = [batchTrace EXCEPT !.since = Min(@ + TickMs, rateLimitDelay)]
    /\ UNCHANGED <<requestGaps, lastFetch, geoBatch, nonRateVars>>

NextRate ==
    \/ \E c \in Callers : GeocodeAddress(c)
    \/ \E c \in Callers : TimerFire(c)
    \/ \E c \in Callers : FetchSettle(c)
    \/ Tick

\* C1: any two provider requests of one client are issued at least
\* rateLimitDelay ms apart, however the concurrent geocodeAddress calls
\* interleave.
C1_RequestsSpaced == \A g \in requestGaps : g >= rateLimitDelay

----------------------------------------------------------------------------
(* Addresses: strings as sequences of one-character strings                *)

Whitespace == {" ", "\t"}

\* Longest address drawn when the key normalisation is exercised.
MaxAddrLen == 3

\* Every string of at most MaxAddrLen characters over a letter in both
\* cases, a space and a tab.
Addresses == UNION {[1..n -> {"a", "A"} \cup Whitespace] : n \in 0..MaxAddrLen}

\* Addresses written to and read from the cache under SpecCache: five
\* distinct keys, one of them spelled in three ways.
CacheAddresses == {<<"a">>, <<"A">>, <<" ", "a">>, <<"b">>, <<"c">>, <<"d">>, <<>>}

\* String.prototype.toLowerCase, one character
LowerChar(ch) ==
    CASE ch = "A" -> "a"
      [] ch = "H" -> "h"
      [] ch = "S" -> "s"
      [] OTHER -> ch

\* String.prototype.toLowerCase
toLowerCase[s \in Seq(STRING)] == [i \in 1..Len(s) |-> LowerChar(s[i])]

trimStart[s \in Seq(STRING)] ==
    IF s = <<>> THEN <<>>
    ELSE IF Head(s) \in Whitespace THEN trimStart[Tail(s)] ELSE s

trimEnd[s \in Seq(STRING)] ==
    IF s = <<>> THEN <<>>
    ELSE IF s[Len(s)] \in Whitespace THEN trimEnd[SubSeq(s, 1, Len(s) - 1)] ELSE s

\* String.prototype.trim
trim[s \in Seq(STRING)] == trimEnd[trimStart[s]]

\* s.replace(/\s+/g, ' '): every maximal run of whitespace becomes one space
collapseWhitespace[s \in Seq(STRING)] ==
    IF s = <<>> THEN <<>>
    ELSE IF Head(s) \in Whitespace
         THEN <<" ">> \o collapseWhitespace[trimStart[s]]
         ELSE <<Head(s)>> \o collapseWhitespace[Tail(s)]

normalizeAddress_NoCollapse(address) == trim[toLowerCase[address]]

\* GeocodingCache.normalizeAddress
normalizeAddress(address) == collapseWhitespace[trim[toLowerCase[address]]]

----------------------------------------------------------------------------
(* GeocodingCache                                                          *)

\* private readonly maxSize = 1000 in the source; the model runs the same
\* code with a small capacity.
maxSize == 3

\* Results stored by the cache operations.
SampleResults == {[coordinates |-> Coord(51, 0), confidence |-> <<90>>],
                  [coordinates |-> Coord(52, -1), confidence |-> <<30>>]}

\* undefined, as returned by Map.get for a missing key
Undefined == [undefined |-> TRUE]

NoOp == [kind |-> "none", address |-> <<>>, value |-> Undefined, evicted |-> {}, retry |-> FALSE]

CacheConstructed ==
    /\ cache = <<>>
    /\ lastOp = NoOp

CacheKeys(c) == [i \in 1..Len(c) |-> c[i].key]

\* Map.has
MapHas(c, k) == \E i \in 1..Len(c) : c[i].key = k

\* Map.get
MapGet(c, k) ==
    IF MapHas(c, k) THEN c[CHOOSE i \in 1..Len(c) : c[i].key = k].value
    ELSE Undefined

\* Map.delete
MapDelete(c, k) == SelectSeq(c, LAMBDA e : e.key # k)

\* Map.set: a new key goes to the end of the iteration order, a present
\* key keeps its place and takes the new value
MapSet(c, k, v) ==
    IF MapHas(c, k)
    THEN [i \in 1..Len(c) |-> IF c[i].key = k THEN [key |-> k, value |-> v] ELSE c[i]]
    ELSE Append(c, [key |-> k, value |-> v])

\* GeocodingCache.get
CacheGet(c, address) == MapGet(c, normalizeAddress(address))

\* GeocodingCache.has
CacheHas(c, address) == MapHas(c, normalizeAddress(address))

CacheSet_EvictAboveCapacity(c, address, result) ==
    LET normalizedAddress == normalizeAddress(address)
        afterEvict == IF Len(c) > maxSize THEN MapDelete(c, c[1].key) ELSE c
    IN  MapSet(afterEvict, normalizedAddress, result)

CacheSet_EvictNewest(c, address, result) ==
    LET normalizedAddress == normalizeAddress(address)
        afterEvict == IF Len(c) >= maxSize THEN MapDelete(c, c[Len(c)].key) ELSE c
    IN  MapSet(afterEvict, normalizedAddress, result)

\* GeocodingCache.set
CacheSet(c, address, result) ==
    LET normalizedAddress == normalizeAddress(address)
        afterEvict == IF Len(c) >= maxSize
                      THEN MapDelete(c, c[1].key)   \* firstKey = keys().next().value
                      ELSE c
    IN  MapSet(afterEvict, normalizedAddress, result)

KeySet(c) == {c[i].key : i \in 1..Len(c)}

Set(address, result) ==
    /\ cache' = CacheSet(cache, address, result)
    /\ lastOp' = [kind |-> "set", address |-> address, value |-> result,
                  evicted |-> KeySet(cache) \ KeySet(cache'), retry |-> FALSE]
    /\ UNCHANGED nonCacheVars

Get(address) ==
    /\ lastOp' = [kind |-> "get", address |-> address, value |-> CacheGet(cache, address),
                  evicted |-> {}, retry |-> FALSE]
    /\ UNCHANGED <<cache, nonCacheVars>>

Has(address) ==
    /\ lastOp' = [kind |-> "has", address |-> address,
                  value |-> [found |-> CacheHas(cache, address)], evicted |-> {}, retry |-> FALSE]
    /\ UNCHANGED <<cache, nonCacheVars>>

\* GeocodingCache.clear
Clear ==
    /\ cache' = <<>>
    /\ lastOp' = [kind |-> "clear", address |-> <<>>, value |-> Undefined, evicted |-> {}, retry |-> FALSE]
    /\ UNCHANGED nonCacheVars

NextCache ==
    \/ \E a \in CacheAddresses, r \in SampleResults : Set(a, r)
    \/ \E a \in CacheAddresses : Get(a)
    \/ \E a \in CacheAddresses : Has(a)
    \/ Clear

\* One write to a fresh cache followed by reads, over every address of
\* Addresses.
WriteFresh(address, result) ==
    /\ lastOp.kind = "none"
    /\ Set(address, result)

ReadBack(address) ==
    /\ lastOp.kind = "set"
    /\ Get(address)

ProbeBack(address) ==
    /\ lastOp.kind = "set"
    /\ Has(address)

NextKeys ==
    \/ \E a \in Addresses, r \in SampleResults : WriteFresh(a, r)
    \/ \E a \in Addresses : ReadBack(a)
    \/ \E a \in Addresses : ProbeBack(a)

----------------------------------------------------------------------------
(* CachedGeocoder                                                          *)

\* Number of concurrent callers of one CachedGeocoder.
NumResolvers == 2

\* Addresses resolved through the wrapper: four distinct keys, one of them
\* spelled in two ways.
WrapAddresses == {<<"a">>, <<"A">>, <<"b">>, <<"c">>, <<"d">>}

\* Calls are told apart by their address only: resolves[a] is the number of
\* geocodeAddress(a) calls that await the client.
Pending == LET Sum[S \in SUBSET WrapAddresses] ==
                   IF S = {} THEN 0
                   ELSE LET x == CHOOSE y \in S : TRUE IN resolves[x] + Sum[S \ {x}]
           IN  Sum[WrapAddresses]

WrapConstructed == resolves = [a \in WrapAddresses |-> 0]

\* geocodeAddress up to its await: a cached result is returned at once,
\* otherwise the call is handed to this.geocoder.
Resolve(address) ==
    /\ Pending < NumResolvers
    /\ LET cached == CacheGet(cache, address)
           retry == lastOp.kind = "failed" /\ lastOp.address = address
       IN  IF cached # Undefined
           THEN /\ lastOp' = [kind |-> "hit", address |-> address, value |-> cached,
                              evicted |-> {}, retry |-> retry]
                /\ UNCHANGED resolves
           ELSE /\ lastOp' = [kind |-> "call", address |-> address, value |-> Undefined,
                              evicted |-> {}, retry |-> retry]
                /\ resolves' = [resolves EXCEPT ![address] = @ + 1]
    /\ UNCHANGED <<cache, nonWrapVars>>

ClientThrows_CachingTheError(address, code) ==
    /\ resolves[address] > 0
    /\ cache' = CacheSet(cache, address, GeocodingError(code))
    /\ lastOp' = [kind |-> "failed", address |-> address, value |-> Undefined,
                  evicted |-> {}, retry |-> FALSE]
    /\ resolves' = [resolves EXCEPT ![address] = @ - 1]
    /\ UNCHANGED nonWrapVars

\* this.geocoder.geocodeAddress returns: the result is cached and returned.
ClientReturns(address, result) ==
    /\ resolves[address] > 0
    /\ cache' = CacheSet(cache, address, result)
    /\ lastOp' = [kind |-> "resolved", address |-> address, value |-> result,
                  evicted |-> {}, retry |-> FALSE]
    /\ resolves' = [resolves EXCEPT ![address] = @ - 1]
    /\ UNCHANGED nonWrapVars

\* this.geocoder.geocodeAddress throws a GeocodingError: the error leaves
\* geocodeAddress before cache.set is reached.
ClientThrows(address, code) ==
    /\ resolves[address] > 0
    /\ lastOp' = [kind |-> "failed", address |-> address, value |-> Undefined,
                  evicted |-> {}, retry |-> FALSE]
    /\ resolves' = [resolves EXCEPT ![address] = @ - 1]
    /\ UNCHANGED <<cache, nonWrapVars>>

\* CachedGeocoder.clearCache
ClearCache ==
    /\ cache' = <<>>
    /\ lastOp' = [kind |-> "clearCache", address |-> <<>>, value |-> Undefined,
                  evicted |-> {}, retry |-> FALSE]
    /\ UNCHANGED <<resolves, nonWrapVars>>

NextCached ==
    \/ \E a \in WrapAddresses : Resolve(a)
    \/ \E a \in WrapAddresses, r \in SampleResults : ClientReturns(a, r)
    \/ \E a \in WrapAddresses, e \in GeocodingErrorCodes : ClientThrows(a, e)
    \/ ClearCache

----------------------------------------------------------------------------
(* School records                                                          *)

\* Number.NaN, outside every range the model compares against
NaN == 1000000

isNaN(x) == x = NaN

\* x <= y on JavaScript numbers: false as soon as one side is NaN
Leq(x, y) == ~isNaN(x) /\ ~isNaN(y) /\ x <= y

isValidCoordinates_Exclusive(coords) ==
    /\ -90 < coords.lat /\ coords.lat < 90
    /\ -180 < coords.lng /\ coords.lng < 180

\* isValidCoordinates
isValidCoordinates(coords) ==
    /\ Leq(-90, coords.lat)
    /\ Leq(coords.lat, 90)
    /\ Leq(-180, coords.lng)
    /\ Leq(coords.lng, 180)
    /\ ~isNaN(coords.lat)
    /\ ~isNaN(coords.lng)

\* enum SchoolColor
SchoolColor == {"#FF69B4", "#9370DB", "#00008B", "#87CEEB", "#228B22", "#FFD700", "#FF0000"}

LongAddress == <<"1", "0", " ", "H", "i", "g", "h", " ", "S", "t">>
ShortAddress == <<"S", "h", "o", "r", "t">>

Number(v) == [type |-> "number", value |-> v]

\* A school that passes every check (the validSchool of the validator's tests).
GoodSchool ==
    [id |-> <<"1">>,
     name |-> <<"T", "e", "s", "t">>,
     address |-> LongAddress,
     schoolType |-> "Grammar",
     gender |-> "Girls",
     level |-> "Secondary",
     color |-> "#FF69B4",
     coordinates |-> <<Coord(51, 0)>>,
     cost |-> <<[amount |-> Number(0), currency |-> "GBP", period |-> "year"]>>,
     competitiveness |-> <<5>>,
     website |-> <<"https://example.com">>,
     notes |-> "Excellent school"]

SchoolFields == {"id", "name", "address", "schoolType", "gender", "level", "color",
                 "coordinates", "cost", "competitiveness", "website"}

\* Other values a field takes in the schools drawn as inputs.
OtherValues(field) ==
    CASE field = "id" -> {<<>>, <<" ">>}
      [] field = "name" -> {<<>>, <<"A", "b">>, <<"A", "b", "c">>}
      [] field = "address" -> {<<>>, ShortAddress}
      [] field = "schoolType" -> {""}
      [] field = "gender" -> {""}
      [] field = "level" -> {""}
      [] field = "color" -> {"", "#123456"}
      [] field = "coordinates" ->
            {<<>>, <<Coord(91, 0)>>, <<Coord(-91, 0)>>, <<Coord(0, 181)>>,
             <<Coord(0, -181)>>, <<Coord(NaN, 0)>>, <<Coord(0, NaN)>>,
             <<Coord(90, 180)>>, <<Coord(-90, -180)>>, <<Coord(0, 0)>>}
      [] field = "cost" ->
            {<<>>,
             <<[amount |-> [type |-> "string", value |-> 0],
                currency |-> "GBP", period |-> "year"]>>,
             <<[amount |-> Number(25000), currency |-> "JPY", period |-> "year"]>>,
             <<[amount |-> Number(25000), currency |-> "GBP", period |-> "month"]>>,
             <<[amount |-> Number(NaN), currency |-> "JPY", period |-> "month"]>>}
      [] field = "competitiveness" -> {<<>>, <<0>>, <<1>>, <<6>>, <<10>>}
      [] field = "website" -> {<<>>, <<"">>, <<"not-a-url">>}

\* At most this many fields of an input school differ from GoodSchool.
MaxAltered == 2

RECURSIVE SchoolsAltered(_)
SchoolsAltered(n) ==
    IF n = 0 THEN {GoodSchool}
    ELSE LET less == SchoolsAltered(n - 1)
         IN  less \cup UNION {{[sf[1] EXCEPT ![sf[2]] = v] : v \in OtherValues(sf[2])} :
                                 sf \in less \X SchoolFields}

----------------------------------------------------------------------------
(* SchoolDataValidator.validateSchool                                      *)

Issue(field, severity, message) ==
    [field |-> field, severity |-> severity, message |-> message]

If(cond, issue) == IF cond THEN <<issue>> ELSE <<>>

MissingIssue(field) == Issue(field, "error", "Required field is missing or empty")

\* validateRequiredFields: the issues it pushes, in the order of requiredFields
validateRequiredFields(school) ==
       If(school.id = <<>>, MissingIssue("id"))
    \o If(school.name = <<>>, MissingIssue("name"))
    \o If(school.address = <<>>, MissingIssue("address"))
    \o If(school.schoolType = "", MissingIssue("schoolType"))
    \o If(school.gender = "", MissingIssue("gender"))
    \o If(school.level = "", MissingIssue("level"))
    \o If(school.color = "", MissingIssue("color"))

\* new URL(website) does not throw
IsWellFormedURL(website) == website \in {"https://example.com"}

validateCost(cost) ==
       If(cost.amount.type # "number",
          Issue("cost", "error", "Cost amount must be a number"))
    \o If(cost.currency \notin {"GBP", "USD", "EUR"},
          Issue("cost", "warning", "Cost currency should be a valid currency code"))
    \o If(cost.period \notin {"year", "term"},
          Issue("cost", "warning", "Cost period should be either year or term"))

\* validateFieldFormats: the issues it pushes, in order
validateFieldFormats(school) ==
       If(trim[school.id] = <<>>,
          Issue("id", "error", "ID must be a non-empty string"))
    \o If(school.name # <<>> /\ Len(school.name) < 3,
          Issue("name", "error", "School name must be at least 3 characters long"))
    \o If(school.address # <<>> /\ Len(school.address) < 10,
          Issue("address", "warning", "Address seems too short, may cause geocoding issues"))
    \o If(school.color # "" /\ school.color \notin SchoolColor,
          Issue("color", "error",
                "Color must be a valid school color from the defined color scheme"))
    \o (IF school.cost # <<>> THEN validateCost(school.cost[1]) ELSE <<>>)
    \o If(/\ school.competitiveness # <<>>
          /\ (school.competitiveness[1] < 1 \/ school.competitiveness[1] > 5),
          Issue("competitiveness", "error", "Competitiveness must be between 1 and 5"))
    \o If(/\ school.website # <<>>
          /\ school.website[1] # ""
          /\ ~IsWellFormedURL(school.website[1]),
          Issue("website", "warning", "Website URL appears to be invalid"))

\* school.coordinates && isValidCoordinates(school.coordinates)
HasValidCoordinates(school) ==
    school.coordinates # <<>> /\ isValidCoordinates(school.coordinates[1])

\* GeocodingError.message, as handleError words it for each code
ErrorMessage(code) ==
    CASE code = "RATE_LIMIT" -> "Rate limit exceeded for address"
      [] code = "NO_RESULTS" -> "No geocoding results found for address"
      [] code = "NETWORK_ERROR" -> "Network error while geocoding address"
      [] code = "INVALID_ADDRESS" -> "Invalid address or geocoding error"

\* A validateSchool call: not made, awaiting geocoder.geocodeAddress,
\* returned its ValidationResult, or rejected.
IdleTask ==
    [phase |-> "idle", issues |-> <<>>, geocodingResult |-> <<>>, isValid |-> FALSE,
     geocoderCalls |-> 0, thrown |-> <<>>]

IsValid_NoWarningsEither(issues) ==
    Len(SelectSeq(issues, LAMBDA i : i.severity \in {"error", "warning"})) = 0

\* isValid = issues.filter(issue => issue.severity === 'error').length === 0
IsValid(issues) == Len(SelectSeq(issues, LAMBDA i : i.severity = "error")) = 0

\* validateSchool returns
Returned(task, issues, geocodingResult) ==
    [task EXCEPT !.phase = "returned", !.issues = issues,
                 !.geocodingResult = geocodingResult, !.isValid = IsValid(issues)]

\* The issue validateCoordinates pushes after a successful geocodeAddress
GeocodedIssue(geocodingResult) ==
    IF /\ geocodingResult.confidence # <<>>
       /\ geocodingResult.confidence[1] # 0
       /\ geocodingResult.confidence[1] < 50
    THEN Issue("coordinates", "warning", "Geocoding confidence is low for address")
    ELSE Issue("coordinates", "info", "Coordinates geocoded successfully for address")

\* validateSchool writes the geocoded coordinates to the school
RepairCoordinates(school, geocodingResult) ==
    IF ~HasValidCoordinates(school)
    THEN [school EXCEPT !.coordinates = <<geocodingResult.coordinates>>]
    ELSE school

\* validateSchool from geocoder.geocodeAddress having returned to its end
AfterGeocoded(k, geocodingResult) ==
    /\ schools' = [schools EXCEPT ![k] = RepairCoordinates(@, geocodingResult)]
    /\ tasks' = [tasks EXCEPT ![k] =
          Returned(@, @.issues \o <<GeocodedIssue(geocodingResult)>>, <<geocodingResult>>)]

\* validateCoordinates reaches geocoder.geocodeAddress
NeedsGeocoding(school) == ~HasValidCoordinates(school) /\ school.address # <<>>

\* Mutant of BegunTask: the geocoder is called without an address as well.
BegunTask_WithoutAddress(school, task, c) ==
    LET issues == validateRequiredFields(school) \o validateFieldFormats(school)
        started == [task EXCEPT !.issues = issues]
        called == [started EXCEPT !.geocoderCalls = @ + 1]
    IN  IF HasValidCoordinates(school)
        THEN Returned(started, issues, <<>>)
        ELSE IF CacheGet(c, school.address) # Undefined
        THEN Returned(called,
                      issues \o <<GeocodedIssue(CacheGet(c, school.address))>>,
                      <<CacheGet(c, school.address)>>)
        ELSE [called EXCEPT !.phase = "geocoding"]

\* validateSchool from its start to its first suspension: the field checks,
\* then validateCoordinates up to geocoder.geocodeAddress, which returns a
\* cached result without suspending. BegunTask is the call after that,
\* BegunSchool the school.
BegunTask(school, task, c) ==
    LET issues == validateRequiredFields(school) \o validateFieldFormats(school)
        started == [task EXCEPT !.issues = issues]
        called == [started EXCEPT !.geocoderCalls = @ + 1]
    IN  IF HasValidCoordinates(school)
        THEN Returned(started, issues, <<>>)
        ELSE IF school.address = <<>>
        THEN Returned(started,
                      issues \o <<Issue("coordinates", "error",
                          "Invalid coordinates and no address provided for geocoding")>>,
                      <<>>)
        ELSE IF CacheGet(c, school.address) # Undefined
        THEN Returned(called,
                      issues \o <<GeocodedIssue(CacheGet(c, school.address))>>,
                      <<CacheGet(c, school.address)>>)
        ELSE [called EXCEPT !.phase = "geocoding"]

BegunSchool(school, c) ==
    IF NeedsGeocoding(school) /\ CacheGet(c, school.address) # Undefined
    THEN RepairCoordinates(school, CacheGet(c, school.address))
    ELSE school

\* The task after geocoder.geocodeAddress has thrown: validateCoordinates
\* catches the GeocodingError and pushes an error issue.
AfterThrown_Uncaught(task, code) ==
    [task EXCEPT !.phase = "rejected", !.thrown = <<code>>]

AfterThrown_AsWarning(task, code) ==
    Returned([task EXCEPT !.thrown = <<code>>],
             task.issues \o <<Issue("coordinates", "warning",
                                    "Geocoding failed: " \o ErrorMessage(code))>>,
             <<>>)

AfterThrown(task, code) ==
    Returned([task EXCEPT !.thrown = <<code>>],
             task.issues \o <<Issue("coordinates", "error",
                                    "Geocoding failed: " \o ErrorMessage(code))>>,
             <<>>)

\* validateSchool(school)
ValidateSchool(k) ==
    /\ tasks[k].phase = "idle"
    /\ tasks' = [tasks EXCEPT ![k] = BegunTask(schools[k], @, cache)]
    /\ schools' = [schools EXCEPT ![k] = BegunSchool(@, cache)]
    /\ UNCHANGED <<original, cache, nonSchoolVars, batchVars>>

\* The client answers the call made through the CachedGeocoder: the result
\* is cached, then validateSchool runs to its end.
GeocoderReturns(k, geocodingResult) ==
    /\ tasks[k].phase = "geocoding"
    /\ cache' = CacheSet(cache, schools[k].address, geocodingResult)
    /\ AfterGeocoded(k, geocodingResult)
    /\ UNCHANGED <<original, nonSchoolVars, batchVars>>

\* The client fails: the CachedGeocoder lets the GeocodingError through.
GeocoderThrows(k, code) ==
    /\ tasks[k].phase = "geocoding"
    /\ tasks' = [tasks EXCEPT ![k] = AfterThrown(@, code)]
    /\ UNCHANGED <<original, schools, cache, nonSchoolVars, batchVars>>

\* Results of the geocoder: one pair of coordinates, with no confidence and
\* with confidences of 0, 0.49, 0.5 and 1.
GeocoderResults ==
    {[coordinates |-> Coord(52, -1), confidence |-> c] :
        c \in {<<>>, <<0>>, <<49>>, <<50>>, <<100>>}}

SchoolsConstructed ==
    /\ original = <<>>
    /\ schools = <<>>
    /\ tasks = <<>>

\* validateSchoolData has not been called
BatchNotCalled ==
    /\ batchPc = "idle"
    /\ batchI = 0
    /\ validationResults = <<>>
    /\ allIssues = <<>>
    /\ geocodingErrors = 0
    /\ summary = <<>>

\* One school, and a geocoder whose cache is empty or holds the school's
\* address from an earlier call.
InitRecord ==
    /\ schools \in {<<s>> : s \in SchoolsAltered(MaxAltered)}
    /\ original = schools
    /\ tasks = <<IdleTask>>
    /\ cache \in {<<>>} \cup
          {<<[key |-> normalizeAddress(LongAddress), value |-> r]>> : r \in GeocoderResults}
    /\ lastOp = NoOp
    /\ RateConstructed
    /\ WrapConstructed
    /\ BatchNotCalled /\ ParseNotCalled
    /\ QueryConstructed

NextRecord ==
    \/ ValidateSchool(1)
    \/ \E r \in GeocoderResults : GeocoderReturns(1, r)
    \/ \E code \in GeocodingErrorCodes : GeocoderThrows(1, code)

SpecRecord == InitRecord /\ [][NextRecord]_vars

----------------------------------------------------------------------------
(* SchoolDataValidator.validateSchoolData                                  *)

\* const batchSize = 10 in the source; the model runs the same loop with
\* small chunks.
batchSize == 2

\* Longest list of schools passed to validateSchoolData.
MaxSchools == 4

\* The schools a list is drawn from: one that passes every check, one
\* without coordinates and one with coordinates out of range and no address.
BatchSchools ==
    {GoodSchool,
     [GoodSchool EXCEPT !.coordinates = <<>>],
     [GoodSchool EXCEPT !.coordinates = <<Coord(999, -999)>>, !.address = <<>>]}

\* Result of the geocoder while a list is validated
BatchResults == {[coordinates |-> Coord(52, -1), confidence |-> <<90>>]}

\* schools.slice(i, i + batchSize), as indices
Slice_SkippingOne(i) == {k \in 1..Len(schools) : i + 1 < k /\ k <= i + batchSize}

\* Mutant of Slice: one school more than batchSize.
Slice_OneMore(i) == {k \in 1..Len(schools) : i < k /\ k <= i + batchSize + 1}

Slice(i) == {k \in 1..Len(schools) : i < k /\ k <= i + batchSize}

\* issue.field === 'coordinates' && issue.message.includes('geocoding')
MentionsGeocoding(message) ==
    message \in {"Invalid coordinates and no address provided for geocoding",
                 "Geocoding failed: No geocoding results found for address",
                 "Geocoding failed: Network error while geocoding address",
                 "Geocoding failed: Invalid address or geocoding error"}

IsGeocodingError(result) ==
    \E n \in 1..Len(result.issues) :
        /\ result.issues[n].field = "coordinates"
        /\ MentionsGeocoding(result.issues[n].message)

\* The ValidationResult of validateSchool(schools[k])
ResultOf(k) ==
    [index |-> k, school |-> schools[k], isValid |-> tasks[k].isValid,
     issues |-> tasks[k].issues, geocodingResult |-> tasks[k].geocodingResult]

\* The n-th index of a slice, in the order of the list
Nth(S, n) == CHOOSE k \in S : Cardinality({j \in S : j <= k}) = n

RECURSIVE Concat(_)
Concat(seqs) == IF seqs = <<>> THEN <<>> ELSE Head(seqs) \o Concat(Tail(seqs))

\* The loop test with i < schools.length: the next chunk is sliced and
\* validateSchool is called on each of its schools, in order, each call
\* running to its first suspension; Promise.all awaits them.
StartChunk ==
    /\ batchPc = "loop"
    /\ batchI < Len(schools)
    /\ tasks' = [k \in 1..Len(schools) |->
          IF k \in Slice(batchI) THEN BegunTask(schools[k], tasks[k], cache) ELSE tasks[k]]
    /\ schools' = [k \in 1..Len(schools) |->
          IF k \in Slice(batchI) THEN BegunSchool(schools[k], cache) ELSE schools[k]]
    /\ batchPc' = "awaiting"
    /\ UNCHANGED <<original, cache, nonSchoolVars, batchI, validationResults, allIssues,
                   geocodingErrors, summary>>

\* Promise.all settles. A rejected validateSchool rejects it, and
\* validateSchoolData with it; otherwise the results of the chunk are
\* pushed, the issues collected and the geocoding errors counted, and the
\* loop pauses before the next chunk or goes on to its test.
ChunkSettled ==
    /\ batchPc = "awaiting"
    /\ \A k \in Slice(batchI) : tasks[k].phase \in {"returned", "rejected"}
    /\ IF \E k \in Slice(batchI) : tasks[k].phase = "rejected"
       THEN /\ batchPc' = "rejected"
            /\ UNCHANGED <<batchI, validationResults, allIssues, geocodingErrors>>
       ELSE \E batchResults \in {[n \in 1..Cardinality(Slice(batchI)) |->
                                      ResultOf(Nth(Slice(batchI), n))]} :
                /\ validationResults' = validationResults \o batchResults
                /\ allIssues' = allIssues \o
                      Concat([n \in 1..Len(batchResults) |-> batchResults[n].issues])
                /\ geocodingErrors' = geocodingErrors +
                      Len(SelectSeq(batchResults, IsGeocodingError))
                /\ IF batchI + batchSize < Len(schools)
                   THEN batchPc' = "pausing" /\ UNCHANGED batchI
                   ELSE batchPc' = "loop" /\ batchI' = batchI + batchSize
    /\ UNCHANGED <<schoolVars, cache, nonSchoolVars, summary>>

\* The setTimeout of 1000 ms between two chunks fires; i += batchSize.
PauseElapsed ==
    /\ batchPc = "pausing"
    /\ batchPc' = "loop"
    /\ batchI' = batchI + batchSize
    /\ UNCHANGED <<schoolVars, cache, nonSchoolVars, validationResults, allIssues,
                   geocodingErrors, summary>>

\* The loop test fails: the summary is built and returned.
ReturnSummary ==
    /\ batchPc = "loop"
    /\ batchI >= Len(schools)
    /\ LET validSchools == Len(SelectSeq(validationResults, LAMBDA r : r.isValid))
       IN  summary' = <<[totalSchools |-> Len(schools),
                         validSchools |-> validSchools,
                         invalidSchools |-> Len(schools) - validSchools,
                         geocodingErrors |-> geocodingErrors,
                         validationResults |-> validationResults,
                         issues |-> allIssues]>>
    /\ batchPc' = "done"
    /\ UNCHANGED <<schoolVars, cache, nonSchoolVars, batchI, validationResults, allIssues,
                   geocodingErrors>>

\* validateSchoolData(schools) has just been called on a list of at most
\* MaxSchools schools, the geocoder's cache being empty.
InitBatch ==
    /\ schools \in UNION {[1..n -> BatchSchools] : n \in 0..MaxSchools}
    /\ original = schools
    /\ tasks = [k \in 1..Len(schools) |-> IdleTask]
    /\ batchPc = "loop"
    /\ batchI = 0
    /\ validationResults = <<>>
    /\ allIssues = <<>>
    /\ geocodingErrors = 0
    /\ summary = <<>>
    /\ CacheConstructed
    /\ RateConstructed
    /\ WrapConstructed
    /\ QueryConstructed
    /\ ParseNotCalled

NextBatch ==
    \/ StartChunk
    \/ \E k \in 1..Len(schools), r \in BatchResults : GeocoderReturns(k, r)
    \/ \E k \in 1..Len(schools), code \in GeocodingErrorCodes : GeocoderThrows(k, code)
    \/ ChunkSettled
    \/ PauseElapsed
    \/ ReturnSummary

SpecBatch == InitBatch /\ [][NextBatch]_vars

\* The event loop runs every callback that is ready, and every call of the
\* geocoder settles.
FairBatch == SpecBatch /\ WF_vars(NextBatch)

----------------------------------------------------------------------------
(* Specifications                                                          *)

InitRate == RateConstructed /\ CacheConstructed /\ WrapConstructed /\ SchoolsConstructed /\ BatchNotCalled /\ ParseNotCalled /\ QueryConstructed

SpecRate == InitRate /\ [][NextRate]_vars

InitCache == CacheConstructed /\ RateConstructed /\ WrapConstructed /\ SchoolsConstructed /\ BatchNotCalled /\ ParseNotCalled /\ QueryConstructed

SpecCache == InitCache /\ [][NextCache]_vars

SpecKeys == InitCache /\ [][NextKeys]_vars

InitCached == CacheConstructed /\ WrapConstructed /\ RateConstructed /\ SchoolsConstructed /\ BatchNotCalled /\ ParseNotCalled /\ QueryConstructed

SpecCached == InitCached /\ [][NextCached]_vars

----------------------------------------------------------------------------
(* Geocoding cache: capacity and eviction                                  *)

\* C5: after any sequence of set, get, has and clear the number of stored
\* entries never exceeds the capacity.
C5_CacheBounded == Len(cache) <= maxSize

\* A write arrived at a full cache, an entry was evicted and the cache is
\* full again.
C5_FullAfterEviction ==
    lastOp.kind = "set" /\ lastOp.evicted # {} /\ Len(cache) = maxSize

\* C6: a set of a key that is not present, at capacity, evicts exactly the
\* first entry of the insertion order and appends the new key; get and has
\* leave the entries and their order as they are.
C6_FifoEviction ==
    [][ /\ (lastOp'.kind = "set" /\ Len(cache) >= maxSize
                /\ ~CacheHas(cache, lastOp'.address))
           => /\ CacheKeys(cache') =
                    Tail(CacheKeys(cache)) \o <<normalizeAddress(lastOp'.address)>>
              /\ lastOp'.evicted = {cache[1].key}
        /\ (lastOp'.kind \in {"get", "has"}) => cache' = cache
      ]_vars

\* A new key was written at capacity: one other key is gone, the cache is
\* full and the new key is last in the insertion order.
C6_EvictedOldest ==
    /\ lastOp.kind = "set"
    /\ Cardinality(lastOp.evicted) = 1
    /\ normalizeAddress(lastOp.address) \notin lastOp.evicted
    /\ Len(cache) = maxSize
    /\ cache[Len(cache)].key = normalizeAddress(lastOp.address)

\* C7: a set of a key that is already present leaves the set of cached
\* keys as it was, at every fill level.
C7_RewriteEvictsNothing ==
    [][ (lastOp'.kind = "set" /\ CacheHas(cache, lastOp'.address))
           => KeySet(cache') = KeySet(cache) ]_vars

\* C8 as stated: a failed resolve leaves the cache unchanged and the next
\* resolve of the same address calls the client again; a resolve of an
\* address whose key is cached returns the stored result without a client
\* call.
C8_FailedResolveRetried ==
    [][ /\ (lastOp'.kind = "failed") => cache' = cache
        /\ (lastOp.kind = "failed" /\ lastOp'.kind \in {"hit", "call"}
                /\ lastOp'.address = lastOp.address)
           => lastOp'.kind = "call"
        /\ (lastOp'.kind \in {"hit", "call"} /\ CacheHas(cache, lastOp'.address))
           => /\ lastOp'.kind = "hit"
              /\ lastOp'.value = CacheGet(cache, lastOp'.address)
              /\ resolves' = resolves
      ]_vars

\* C8, amended: a failed resolve leaves the cache unchanged; a resolve of
\* an address whose key is not cached calls the client, so a failed address
\* is asked again unless another resolve has stored its key meanwhile; a
\* successful resolve stores its result, and a resolve of an address whose
\* key is cached returns the stored result without a client call.
C8_OnlySuccessCached ==
    [][ /\ (lastOp'.kind = "failed") => cache' = cache
        /\ (lastOp'.kind \in {"hit", "call"} /\ ~CacheHas(cache, lastOp'.address))
           => /\ lastOp'.kind = "call"
              /\ resolves'[lastOp'.address] = resolves[lastOp'.address] + 1
        /\ (lastOp'.kind = "resolved")
           => CacheGet(cache', lastOp'.address) = lastOp'.value
        /\ (lastOp'.kind \in {"hit", "call"} /\ CacheHas(cache, lastOp'.address))
           => /\ lastOp'.kind = "hit"
              /\ lastOp'.value = CacheGet(cache, lastOp'.address)
              /\ resolves' = resolves
      ]_vars

\* The resolve that follows a failed resolve of the same address has
\* called the client again.
C8_RetriedAfterFailure == lastOp.kind = "call" /\ lastOp.retry

----------------------------------------------------------------------------
(* Validation of one school                                                *)

\* C4: a ValidationResult has isValid exactly when none of its issues has
\* severity error; warnings and info issues alone leave the school valid.
C4_ValidIffNoError ==
    \A k \in 1..Len(tasks) :
        tasks[k].phase = "returned"
        => (tasks[k].isValid
              <=> ~\E i \in 1..Len(tasks[k].issues) : tasks[k].issues[i].severity = "error")

\* A school came back valid although a geocoding of low confidence left a
\* warning on its coordinates.
C4_ValidWithWarning ==
    /\ Len(tasks) = 1
    /\ tasks[1].phase = "returned"
    /\ tasks[1].isValid
    /\ \E i \in 1..Len(tasks[1].issues) :
          /\ tasks[1].issues[i].severity = "warning"
          /\ tasks[1].issues[i].field = "coordinates"

\* The range predicate on coordinates: lat in [-90, 90], lng in [-180, 180].
InRange(coordinates) ==
    /\ coordinates # <<>>
    /\ coordinates[1].lat \in -90..90
    /\ coordinates[1].lng \in -180..180

\* C10: validation writes to no field of a school but coordinates, and to
\* coordinates only when the coordinates it received are absent or out of
\* range.
C10_OnlyInvalidCoordinatesRepaired ==
    \A k \in 1..Len(schools) :
        /\ \A f \in DOMAIN schools[k] \ {"coordinates"} : schools[k][f] = original[k][f]
        /\ InRange(original[k].coordinates)
              => schools[k].coordinates = original[k].coordinates
        /\ schools[k].coordinates # original[k].coordinates
              => ~InRange(original[k].coordinates)

\* A school that came with coordinates out of range has left validation
\* with the geocoded ones.
C10_Repaired ==
    /\ Len(tasks) = 1
    /\ tasks[1].phase = "returned"
    /\ original[1].coordinates # <<>>
    /\ schools[1].coordinates # original[1].coordinates

----------------------------------------------------------------------------
(* Validation of a list of schools                                         *)

\* C2: if every geocoder call settles, validateSchoolData returns a summary,
\* whatever the geocoder's results and errors were: it never rejects, and
\* the summary holds one result per input school, in input order, those
\* whose geocoding failed with isValid = false.
C2_BatchAlwaysCompletes ==
    /\ <>(batchPc = "done")
    /\ [](batchPc # "rejected")
    /\ [](batchPc = "done"
            => /\ Len(summary[1].validationResults) = Len(original)
               /\ \A k \in 1..Len(original) :
                     /\ summary[1].validationResults[k].index = k
                     /\ summary[1].validationResults[k].school.id = original[k].id
                     /\ tasks[k].thrown # <<>>
                           => ~summary[1].validationResults[k].isValid)

\* A list of more than one chunk was validated, the geocoder having failed
\* for one school and succeeded for another.
C2_DoneAfterMixedOutcomes ==
    /\ batchPc = "done"
    /\ Len(original) > batchSize
    /\ \E k \in 1..Len(tasks) : tasks[k].thrown # <<>>
    /\ \E k \in 1..Len(tasks) : tasks[k].geocodingResult # <<>>

\* C3: the summary of N schools has totalSchools = N, N per-school results
\* and validSchools + invalidSchools = N, validSchools being the number of
\* results with isValid.
C3_SummaryCounts ==
    batchPc = "done"
    => /\ summary[1].totalSchools = Len(original)
       /\ Len(summary[1].validationResults) = Len(original)
       /\ summary[1].validSchools + summary[1].invalidSchools = summary[1].totalSchools
       /\ summary[1].validSchools =
             Cardinality({k \in 1..Len(summary[1].validationResults) :
                             summary[1].validationResults[k].isValid})

\* A list whose last chunk is not full was validated, with valid and with
\* invalid schools in it.
C3_PartialLastChunk ==
    /\ batchPc = "done"
    /\ Len(original) > batchSize
    /\ Len(original) % batchSize # 0
    /\ summary[1].validSchools > 0
    /\ summary[1].invalidSchools > 0

----------------------------------------------------------------------------
(* Geocoding cache: key normalisation                                      *)

\* The words of an address: its maximal runs of non-whitespace characters,
\* letters taken without their case.
FoldCase(ch) == IF ch \in {"a", "A"} THEN "a" ELSE ch

RECURSIVE WordsOf(_, _)
WordsOf(s, word) ==
    IF s = <<>> THEN (IF word = <<>> THEN <<>> ELSE <<word>>)
    ELSE IF Head(s) \in Whitespace
         THEN (IF word = <<>> THEN <<>> ELSE <<word>>) \o WordsOf(Tail(s), <<>>)
         ELSE WordsOf(Tail(s), Append(word, FoldCase(Head(s))))

\* The two addresses differ at most in letter case, in leading or trailing
\* whitespace and in their internal whitespace runs.
SameWords(a, b) == WordsOf(a, <<>>) = WordsOf(b, <<>>)

----------------------------------------------------------------------------
(* Coordinate repair                                                       *)

\* C11: when geocoder.geocodeAddress throws a GeocodingError for a school
\* whose coordinates are invalid, validateSchool returns a result with an
\* error issue on coordinates that reports the geocoding failure, isValid
\* false and no geocodingResult, and the school keeps the coordinates it
\* came with.
C11_FailedGeocodingReported ==
    \A k \in 1..Len(tasks) :
        tasks[k].thrown # <<>>
        => /\ tasks[k].phase = "returned"
           /\ ~tasks[k].isValid
           /\ tasks[k].geocodingResult = <<>>
           /\ schools[k].coordinates = original[k].coordinates
           /\ \E i \in 1..Len(tasks[k].issues) :
                 /\ tasks[k].issues[i].field = "coordinates"
                 /\ tasks[k].issues[i].severity = "error"
                 /\ tasks[k].issues[i].message =
                       "Geocoding failed: " \o ErrorMessage(tasks[k].thrown[1])

\* The geocoder failed for a school that came with coordinates out of range
\* and no other fault.
C11_FailedOnOutOfRange ==
    /\ Len(tasks) = 1
    /\ tasks[1].thrown # <<>>
    /\ original[1].coordinates # <<>>
    /\ Len(tasks[1].issues) = 1

\* The issues of a task on field coordinates
CoordinateIssues(task) == SelectSeq(task.issues, LAMBDA i : i.field = "coordinates")

\* C12: after a successful geocoding the school has the geocoded coordinates
\* and the result has exactly one issue on coordinates, the last of its
\* issues: a warning when the confidence is below 0.5, an info issue
\* otherwise, for every confidence from 0 to 1.
C12_RepairReportsConfidence ==
    \A k \in 1..Len(tasks) :
        (tasks[k].phase = "returned" /\ tasks[k].geocodingResult # <<>>)
        => LET result == tasks[k].geocodingResult[1]
               issues == tasks[k].issues
           IN  /\ schools[k].coordinates = <<result.coordinates>>
               /\ Len(CoordinateIssues(tasks[k])) = 1
               /\ issues[Len(issues)].field = "coordinates"
               /\ issues[Len(issues)].severity =
                     IF result.confidence # <<>> /\ result.confidence[1] < 50
                     THEN "warning" ELSE "info"

----------------------------------------------------------------------------
(* NominatimGeocoder: errors and batches                                   *)

\* Longest list of addresses passed to geocodeBatch.
MaxBatchAddresses == 3

\* Addresses passed to geocodeBatch
BatchAddresses == {<<"a">>, <<"b">>}

\* What the provider answers to the requests of geocodeBatch: a candidate,
\* no candidate, and HTTP 429.
BatchResponses ==
    {r \in Responses :
        \/ r.type = "response" /\ r.status = 429
        \/ r.type = "response" /\ r.status = 200 /\ r.body.json = "array"
           /\ \A i \in 1..Len(r.body.items) : r.body.items[i].type = "school"}

\* The callers of the client while geocodeBatch runs: geocodeBatch and one
\* other.
GeoBatchCallers == {BatchCaller, BatchCaller + 1}

\* The loop of geocodeBatch after geocodeAddress has thrown, rethrowing
AfterOutcome_AbortOnError(b, outcome) ==
    IF Threw(outcome) THEN [b EXCEPT !.pc = "rejected"]
    ELSE [b EXCEPT !.results = MapSet(@, b.addresses[b.index + 1], outcome),
                   !.index = @ + 1, !.pc = "loop"]

\* The loop of geocodeBatch after geocodeAddress has returned or thrown:
\* results.set(address, result) in the try block, results.set(address,
\* error) in the catch block, then the next address
AfterOutcome(b, outcome) ==
    [b EXCEPT !.results = MapSet(@, b.addresses[b.index + 1], outcome),
              !.index = @ + 1, !.pc = "loop"]

\* The loop of geocodeBatch reaches the next address and calls
\* geocodeAddress, which runs to its first suspension.
BatchCall ==
    /\ geoBatch.pc = "loop"
    /\ geoBatch.index < Len(geoBatch.addresses)
    /\ callers[BatchCaller].phase = "idle"
    /\ EnforceRateLimit(BatchCaller)
    /\ geoBatch' = [geoBatch EXCEPT !.pc = "awaiting"]
    /\ batchTrace' = IF timeSinceLastRequest < rateLimitDelay THEN batchTrace
                     ELSE Traced(geoBatch.addresses[geoBatch.index + 1])
    /\ UNCHANGED <<lastFetch, nonRateVars>>

\* geocodeAddress settles for geocodeBatch
BatchSettle ==
    /\ geoBatch.pc = "awaiting"
    /\ \E response \in BatchResponses :
          /\ Settle(BatchCaller, response)
          /\ geoBatch' = AfterOutcome(geoBatch, Outcome(response))
    /\ UNCHANGED <<batchTrace, nonRateVars>>

\* The loop is over: geocodeBatch returns results.
BatchReturn ==
    /\ geoBatch.pc = "loop"
    /\ geoBatch.index = Len(geoBatch.addresses)
    /\ geoBatch' = [geoBatch EXCEPT !.pc = "done"]
    /\ UNCHANGED <<timeSinceLastRequest, callers, requestGaps, lastFetch, batchTrace,
                   nonRateVars>>

\* geocodeBatch(addresses) has just been called on a client whose last
\* request was issued some time ago; other callers use the client too.
InitGeoBatch ==
    /\ timeSinceLastRequest \in {0, TickMs, rateLimitDelay}
    /\ callers = [c \in Callers |-> IdleCaller]
    /\ requestGaps = {}
    /\ lastFetch = NoFetch
    /\ geoBatch \in {[pc |-> "loop", addresses |-> a, index |-> 0, results |-> <<>>] :
                        a \in UNION {[1..n -> BatchAddresses] : n \in 0..MaxBatchAddresses}}
    /\ batchTrace = NoBatchTrace
    /\ CacheConstructed /\ WrapConstructed /\ SchoolsConstructed /\ BatchNotCalled /\ ParseNotCalled
    /\ QueryConstructed

NextGeoBatch ==
    \/ BatchCall
    \/ BatchSettle
    \/ BatchReturn
    \/ \E c \in GeoBatchCallers : GeocodeAddress(c)
    \/ \E c \in GeoBatchCallers : TimerFire(c)
    \/ \E c \in GeoBatchCallers : FetchSettle(c)
    \/ Tick

SpecGeoBatch == InitGeoBatch /\ [][NextGeoBatch]_vars

\* C13: geocodeBatch issues its requests one at a time and in input order,
\* a request neither before the one before it has settled nor less than
\* rateLimitDelay ms after it was issued; a failure for one address does
\* not stop the later ones from being requested, and the map returned has
\* an outcome for every distinct address of the input.
C13_BatchSequential ==
    LET requested == batchTrace.requested
    IN  /\ geoBatch.pc # "rejected"
        /\ Len(requested) <= Len(geoBatch.addresses)
        /\ requested = SubSeq(geoBatch.addresses, 1, Len(requested))
        /\ Len(requested) \in {geoBatch.index, geoBatch.index + 1}
        /\ Len(requested) = geoBatch.index + 1 => geoBatch.pc = "awaiting"
        /\ \A g \in batchTrace.gaps : g >= rateLimitDelay
        /\ geoBatch.pc = "done"
              => /\ requested = geoBatch.addresses
                 /\ KeySet(geoBatch.results) =
                       {geoBatch.addresses[i] : i \in 1..Len(geoBatch.addresses)}

\* geocodeBatch has returned a map in which one address failed and one
\* after it was resolved.
C13_LaterAddressResolved ==
    /\ geoBatch.pc = "done"
    /\ geoBatch.addresses = <<<<"a">>, <<"b">>, <<"a">>>>
    /\ Len(geoBatch.results) = 2
    /\ ~Threw(MapGet(geoBatch.results, <<"a">>))
    /\ Threw(MapGet(geoBatch.results, <<"b">>))
    /\ batchTrace.gaps # {}

\* The GeocodingError code a failure on this response is to have: a
\* failure of the transport is a NETWORK_ERROR, HTTP 429 a RATE_LIMIT, no
\* candidates NO_RESULTS and anything else INVALID_ADDRESS.
CodeFor(response) ==
    IF response.type = "rejected" THEN "NETWORK_ERROR"
    ELSE IF response.status = 429 THEN "RATE_LIMIT"
    ELSE IF /\ response.status \in 200..299
            /\ \/ response.body.json = "null"
               \/ response.body.json = "array" /\ response.body.items = <<>>
    THEN "NO_RESULTS"
    ELSE "INVALID_ADDRESS"

\* C14: every failure of geocodeAddress is a GeocodingError with one of
\* the four codes: NETWORK_ERROR for a failure of the transport,
\* NO_RESULTS for an empty candidate list, RATE_LIMIT for HTTP 429 and
\* INVALID_ADDRESS for any other failure.
C14_FailureClassified ==
    (lastFetch.outcome # <<>> /\ Threw(lastFetch.outcome[1]))
    => /\ lastFetch.outcome[1].code \in GeocodingErrorCodes
       /\ lastFetch.outcome[1].code = CodeFor(lastFetch.response[1])

----------------------------------------------------------------------------
(* Query layer: the schools it is called on                                *)

\* A school as the filters and the search read it (createMockSchool of the
\* filter tests, with overrides). Text fields are sequences of characters.
QuerySchool(id, name, address, postcode, borough, county, schoolType, gender, level, amount, competitiveness, ranking, boardingOptions, religiousAffiliation) ==
    [id |-> id, name |-> name, address |-> address, postcode |-> postcode,
     borough |-> borough, county |-> county, schoolType |-> schoolType,
     gender |-> gender, level |-> level,
     cost |-> [amount |-> amount, isFree |-> amount = 0],
     competitiveness |-> competitiveness, ranking |-> ranking,
     boardingOptions |-> boardingOptions, religiousAffiliation |-> religiousAffiliation]

QuerySchools ==
    {QuerySchool("1", <<"A", "b">>, <<"a", " ", "c">>, <<"n", "1">>, <<"b">>,
                 "London", "Grammar", "Boys", "Secondary", 0, 5,
                 <<[position |-> 9]>>, <<>>, <<>>),
     QuerySchool("2", <<"c", "a", "b", "c">>, <<"c", "a", "b">>, <<"n", "1", "2">>,
                 <<"c", "a", "b">>,
                 "Kent", "Private", "Girls", "Secondary", 25000, 3,
                 <<>>, <<"Day">>, <<"CofE">>),
     QuerySchool("3", <<"c", " ", "a", "b">>, <<"b">>, <<"e", "1">>, <<"c">>,
                 "London", "Comprehensive", "Co-ed", "Secondary", 0, 1,
                 <<[position |-> 50]>>, <<"Both">>, <<>>),
     QuerySchool("4", <<"c">>, <<"d">>, <<"e", "2">>, <<"a">>,
                 "Buckinghamshire", "State Primary", "Co-ed", "Primary", 500, 3,
                 <<>>, <<>>, <<>>)}

\* Longest list of schools the query layer is called on.
MaxRecords == 2

RecordLists == UNION {[1..n -> QuerySchools] : n \in 0..MaxRecords}

\* Array.prototype.includes
InSeq(seq, x) == \E i \in 1..Len(seq) : seq[i] = x

----------------------------------------------------------------------------
(* filterSchools                                                           *)

\* Values of the fields of SchoolFilters in the criteria drawn as inputs.
FilterValues(field) ==
    CASE field = "schoolTypes" -> {<<>>, <<"Grammar", "Private">>}
      [] field = "genders" -> {<<"Boys">>}
      [] field = "levels" -> {<<"Secondary">>}
      [] field = "counties" -> {<<"London">>}
      [] field = "costRange" -> {[min |-> <<0>>, max |-> <<1000>>],
                                 [min |-> <<1>>, max |-> <<>>]}
      [] field = "competitiveness" -> {<<3, 5>>}
      [] field = "rankingRange" -> {[min |-> <<1>>, max |-> <<1000>>],
                                    [min |-> <<1>>, max |-> <<10>>],
                                    [min |-> <<>>, max |-> <<>>]}
      [] field = "boardingOptions" -> {<<>>, <<"Day">>}
      [] field = "religiousAffiliation" -> {<<"CofE">>}

FilterFields == {"schoolTypes", "genders", "levels", "counties", "costRange",
                 "competitiveness", "rankingRange", "boardingOptions",
                 "religiousAffiliation"}

\* At most this many fields of a SchoolFilters object are present.
MaxActive == 2

\* The SchoolFilters objects with at most n fields present, a record with
\* the fields that are present; {} is the record with none.
RECURSIVE CriteriaOf(_)
CriteriaOf(n) ==
    IF n = 0 THEN {[d \in {} |-> <<>>]}
    ELSE LET less == CriteriaOf(n - 1)
         IN  less \cup UNION {{fd[1] @@ (fd[2] :> v) : v \in FilterValues(fd[2])} :
                                 fd \in {x \in less \X FilterFields : x[2] \notin DOMAIN x[1]}}

\* The SchoolFilters objects drawn as inputs
Criteria == CriteriaOf(MaxActive)

\* filters.f && filters.f.length > 0
NonEmpty(filters, field) == field \in DOMAIN filters /\ Len(filters[field]) > 0

\* The callback of schools.filter in filterSchools
PassesFilters(school, filters) ==
    /\ NonEmpty(filters, "schoolTypes") => InSeq(filters.schoolTypes, school.schoolType)
    /\ NonEmpty(filters, "genders") => InSeq(filters.genders, school.gender)
    /\ NonEmpty(filters, "levels") => InSeq(filters.levels, school.level)
    /\ NonEmpty(filters, "counties") => InSeq(filters.counties, school.county)
    /\ "costRange" \in DOMAIN filters
          => /\ ~(filters.costRange.min # <<>> /\ school.cost.amount < filters.costRange.min[1])
             /\ ~(filters.costRange.max # <<>> /\ school.cost.amount > filters.costRange.max[1])
    /\ NonEmpty(filters, "competitiveness")
          => InSeq(filters.competitiveness, school.competitiveness)
    /\ "rankingRange" \in DOMAIN filters
          => /\ school.ranking # <<>>
             /\ ~(/\ filters.rankingRange.min # <<>>
                  /\ school.ranking[1].position < filters.rankingRange.min[1])
             /\ ~(/\ filters.rankingRange.max # <<>>
                  /\ school.ranking[1].position > filters.rankingRange.max[1])
    /\ NonEmpty(filters, "boardingOptions")
          => /\ school.boardingOptions # <<>>
             /\ InSeq(filters.boardingOptions, school.boardingOptions[1])
    /\ NonEmpty(filters, "religiousAffiliation")
          => /\ school.religiousAffiliation # <<>>
             /\ InSeq(filters.religiousAffiliation, school.religiousAffiliation[1])

filterSchools_EmptySetMatchesNone(list, filters) ==
    IF DOMAIN filters = {} THEN list
    ELSE SelectSeq(list, LAMBDA school :
            /\ PassesFilters(school, filters)
            /\ "boardingOptions" \in DOMAIN filters
                  => NonEmpty(filters, "boardingOptions"))

\* filterSchools
filterSchools(list, filters) ==
    IF DOMAIN filters = {} THEN list     \* Object.keys(filters).length === 0
    ELSE SelectSeq(list, LAMBDA school : PassesFilters(school, filters))

\* filterSchools(records, filters) is called.
FilterSchools(filters) ==
    /\ lastCall' = [op |-> "filterSchools", list |-> records, filters |-> filters, query |-> <<>>,
                    result |-> filterSchools(records, filters), cached |-> FALSE,
                    found |-> <<>>]
    /\ UNCHANGED <<records, memoCache, nonQueryVars>>

\* Some schools are loaded; the filters are then applied to them.
InitFilter ==
    /\ records \in RecordLists
    /\ memoCache = <<>>
    /\ lastCall = NoCall
    /\ RateConstructed /\ CacheConstructed /\ WrapConstructed /\ SchoolsConstructed
    /\ BatchNotCalled /\ ParseNotCalled

\* filterSchools keeps no state between calls: one call on the list
NextFilter == lastCall = NoCall /\ \E filters \in Criteria : FilterSchools(filters)

SpecFilter == InitFilter /\ [][NextFilter]_vars

\* The value of a school on a dimension of the criteria, if it has one
Dimension(school, field) ==
    CASE field = "schoolTypes" -> <<school.schoolType>>
      [] field = "genders" -> <<school.gender>>
      [] field = "levels" -> <<school.level>>
      [] field = "counties" -> <<school.county>>
      [] field = "costRange" -> <<school.cost.amount>>
      [] field = "competitiveness" -> <<school.competitiveness>>
      [] field = "rankingRange" ->
            IF school.ranking = <<>> THEN <<>> ELSE <<school.ranking[1].position>>
      [] field = "boardingOptions" -> school.boardingOptions
      [] field = "religiousAffiliation" -> school.religiousAffiliation

\* The school satisfies the predicate of the criteria on this dimension: an
\* empty set matches every school, a set the schools with a value in it, a
\* range the schools with a value inside its bounds.
Satisfies(school, filters, field) ==
    LET value == Dimension(school, field)
        wanted == filters[field]
    IN  IF field \in {"costRange", "rankingRange"}
        THEN /\ value # <<>>
             /\ wanted.min # <<>> => value[1] >= wanted.min[1]
             /\ wanted.max # <<>> => value[1] <= wanted.max[1]
        ELSE wanted = <<>> \/ (value # <<>> /\ \E i \in 1..Len(wanted) : wanted[i] = value[1])

\* C15: filterSchools returns the schools of its input that satisfy every
\* predicate present in the criteria, in the order of the input; a
\* predicate that is absent or an empty set matches every school, and with
\* empty criteria the result is the input.
C15_FilterExact ==
    lastCall.op = "filterSchools"
    => /\ lastCall.result =
             SelectSeq(records, LAMBDA school :
                \A field \in DOMAIN lastCall.filters :
                    Satisfies(school, lastCall.filters, field))
       /\ DOMAIN lastCall.filters = {} => lastCall.result = records

\* Two predicates, one of them an empty set, kept one of two schools.
C15_EmptySetAmongPredicates ==
    /\ lastCall.op = "filterSchools"
    /\ DOMAIN lastCall.filters = {"boardingOptions", "counties"}
    /\ lastCall.filters.boardingOptions = <<>>
    /\ Len(records) = 2
    /\ Len(lastCall.result) = 1
    /\ lastCall.result[1] = records[2]

----------------------------------------------------------------------------
(* memoize and optimizedSchoolFilter                                       *)

\* 60000 // 1 minute cache
FilterTtlMs == 60000

\* 300000 // 5 minute cache
SearchTtlMs == 300000

\* Granularity of the clock of the memo cache, in ms.
QueryTickMs == 100000

\* Entries the memo cache holds at most while it is explored.
MaxMemoEntries == 2

\* results.slice(0, 50)
MaxSearchResults == 50

\* The school with an id
SchoolById(id) == CHOOSE school \in QuerySchools : school.id = id

\* The lists of schools the memoized operations are called on: two of the
\* same length and a shorter one
MemoRecordLists ==
    {<<SchoolById("1"), SchoolById("2")>>,
     <<SchoolById("4"), SchoolById("3")>>,
     <<SchoolById("2")>>}

\* The lists of schools searched: a short one, and one with more schools
\* than a search returns
SearchRecordLists ==
    {<<SchoolById("1"), SchoolById("2"), SchoolById("4")>>,
     [i \in 1..(MaxSearchResults + 1) |-> SchoolById(IF i % 2 = 1 THEN "4" ELSE "3")]}

\* The filters objects passed to optimizedSchoolFilter
OptCriteria ==
    {[ranking |-> <<1, 1000>>], [ranking |-> <<1, 10>>],
     [gender |-> <<"Co-ed">>, ranking |-> <<2, 1000>>],
     [costRange |-> <<0, 1000>>]}

\* The order in which the fields of a filters object are written
OptFilterFields ==
    <<"schoolType", "gender", "level", "costRange", "competitiveness", "borough", "ranking">>

\* JSON.stringify(filters): the fields that are present with their values
Stringify(filters) ==
    LET present == SelectSeq(OptFilterFields, LAMBDA f : f \in DOMAIN filters)
    IN  [i \in 1..Len(present) |-> <<present[i], filters[present[i]]>>]

\* `filter_${JSON.stringify(filters)}_${schools.length}`
FilterKey(list, filters) == <<"filter_", Stringify(filters), "_", Len(list)>>

\* filters.f && filters.f.length > 0
OptNonEmpty(filters, field) == field \in DOMAIN filters /\ Len(filters[field]) > 0

\* A school passes every filter of the function optimizedSchoolFilter
\* memoizes
OptPasses(school, filters) ==
    /\ OptNonEmpty(filters, "schoolType") => InSeq(filters.schoolType, school.schoolType)
    /\ OptNonEmpty(filters, "gender") => InSeq(filters.gender, school.gender)
    /\ OptNonEmpty(filters, "level") => InSeq(filters.level, school.level)
    /\ "costRange" \in DOMAIN filters
          => LET cost == IF school.cost.isFree THEN 0 ELSE school.cost.amount
             IN  cost >= filters.costRange[1] /\ cost <= filters.costRange[2]
    /\ "competitiveness" \in DOMAIN filters
          => /\ school.competitiveness >= filters.competitiveness[1]
             /\ school.competitiveness <= filters.competitiveness[2]
    /\ OptNonEmpty(filters, "borough") => InSeq(filters.borough, school.borough)
    /\ ("ranking" \in DOMAIN filters /\ (filters.ranking[1] > 1 \/ filters.ranking[2] < 1000))
          => /\ school.ranking # <<>>
             /\ school.ranking[1].position >= filters.ranking[1]
             /\ school.ranking[1].position <= filters.ranking[2]

\* The function optimizedSchoolFilter memoizes
SchoolFilter(list, filters) == SelectSeq(list, LAMBDA school : OptPasses(school, filters))

\* Mutant of MemoHit: an entry is still returned when exactly ttlMs have
\* passed.
MemoHit_AtTtl(key, ttlMs) ==
    MapGet(memoCache, key) # Undefined /\ MapGet(memoCache, key).age <= ttlMs

\* cached && Date.now() - cached.timestamp < ttlMs
MemoHit(key, ttlMs) ==
    MapGet(memoCache, key) # Undefined /\ MapGet(memoCache, key).age < ttlMs

\* A call of a function wrapped by memoize: the entry under the key is
\* returned if there is one younger than ttlMs; otherwise the function
\* runs and its result is stored under the key with the time of the call.
\* lastCall.found observes the age of the entry the call found, if any.
Memoized(op, filters, query, key, ttlMs, computed) ==
    IF MemoHit(key, ttlMs)
    THEN /\ lastCall' = [op |-> op, list |-> records, filters |-> filters, query |-> query,
                         result |-> MapGet(memoCache, key).value, cached |-> TRUE,
                         found |-> <<MapGet(memoCache, key).age>>]
         /\ UNCHANGED memoCache
    ELSE /\ MapHas(memoCache, key) \/ Len(memoCache) < MaxMemoEntries
         /\ memoCache' = MapSet(memoCache, key, [value |-> computed, age |-> 0])
         /\ lastCall' = [op |-> op, list |-> records, filters |-> filters, query |-> query,
                         result |-> computed, cached |-> FALSE,
                         found |-> IF MapHas(memoCache, key)
                                   THEN <<MapGet(memoCache, key).age>> ELSE <<>>]

\* optimizedSchoolFilter(records, filters) is called.
OptimizedSchoolFilter(filters) ==
    /\ Memoized("optimizedSchoolFilter", filters, <<>>, FilterKey(records, filters),
                FilterTtlMs, SchoolFilter(records, filters))
    /\ UNCHANGED <<records, nonQueryVars>>

\* Other schools are loaded.
LoadRecords(lists) ==
    /\ records' \in lists \ {records}
    /\ UNCHANGED <<memoCache, lastCall, nonQueryVars>>

\* clearMemoCache()
ClearMemoCache ==
    /\ memoCache # <<>>
    /\ memoCache' = <<>>
    /\ UNCHANGED <<records, lastCall, nonQueryVars>>

\* The ttlMs of the memoized function that writes a key
TtlOf(key) == IF key[1] = "filter_" THEN FilterTtlMs ELSE SearchTtlMs

\* QueryTickMs of wall-clock time pass; the ages of an entry at and beyond
\* the TTL of its function are not told apart.
QueryTick ==
    /\ \E i \in 1..Len(memoCache) : memoCache[i].value.age < TtlOf(memoCache[i].key)
    /\ memoCache' = [i \in 1..Len(memoCache) |->
          [memoCache[i] EXCEPT
             !.value.age = Min(@ + QueryTickMs, TtlOf(memoCache[i].key))]]
    /\ UNCHANGED <<records, lastCall, nonQueryVars>>

----------------------------------------------------------------------------
(* optimizedSchoolSearch                                                   *)

\* The characters of the model's alphabet that \\b and \\w do not count as
\* word characters
NonWordChars == Whitespace \cup {".", ",", "-", "(", ")"}

\* The character at position k of a text is a word character.
WordAt(text, k) == k \in 1..Len(text) /\ text[k] \notin NonWordChars

\* \\b between positions k and k + 1 of a text
WordBoundary(text, k) == WordAt(text, k) # WordAt(text, k + 1)

\* The escaped term matches at position p of a text, ignoring case.
MatchesAt(text, term, p) ==
    /\ p + Len(term) - 1 <= Len(text)
    /\ SubSeq(toLowerCase[text], p, p + Len(term) - 1) = toLowerCase[term]

\* new RegExp(`\\b${escapeRegExp(searchTerm)}\\b`, 'i').test(text)
exactMatch(term, text) ==
    \E p \in 1..Len(text) :
        /\ MatchesAt(text, term, p)
        /\ WordBoundary(text, p - 1)
        /\ WordBoundary(text, p + Len(term) - 1)

\* new RegExp(`^${escapeRegExp(searchTerm)}`, 'i').test(text)
startsWith(term, text) == MatchesAt(text, term, 1)

\* new RegExp(escapeRegExp(searchTerm), 'i').test(text)
contains(term, text) == \E p \in 1..Len(text) : MatchesAt(text, term, p)

\* Mutant of Relevance: the borough does not count.
Relevance_WithoutBorough(school, term) ==
    (IF exactMatch(term, school.name) THEN 100
     ELSE IF startsWith(term, school.name) THEN 80
     ELSE IF contains(term, school.name) THEN 60 ELSE 0)
    + (IF exactMatch(term, school.address) THEN 50
       ELSE IF contains(term, school.address) THEN 30 ELSE 0)
    + (IF exactMatch(term, school.postcode) THEN 40
       ELSE IF startsWith(term, school.postcode) THEN 25 ELSE 0)

\* The relevance the scoring loop gives a school
Relevance(school, term) ==
    (IF exactMatch(term, school.name) THEN 100
     ELSE IF startsWith(term, school.name) THEN 80
     ELSE IF contains(term, school.name) THEN 60 ELSE 0)
    + (IF exactMatch(term, school.address) THEN 50
       ELSE IF contains(term, school.address) THEN 30 ELSE 0)
    + (IF exactMatch(term, school.postcode) THEN 40
       ELSE IF startsWith(term, school.postcode) THEN 25 ELSE 0)
    + (IF exactMatch(term, school.borough) THEN 35
       ELSE IF contains(term, school.borough) THEN 20 ELSE 0)

\* Mutant of SortByRelevance: the results stay in the order of the schools.
SortByRelevance_Unsorted(results) == results

\* results.sort((a, b) => b.relevance - a.relevance): a stable sort, the
\* results of the highest relevance first in their order, then the rest.
RECURSIVE SortByRelevance(_)
SortByRelevance(results) ==
    IF results = <<>> THEN <<>>
    ELSE LET highest == CHOOSE r \in {results[i].relevance : i \in 1..Len(results)} :
                            \A i \in 1..Len(results) : results[i].relevance <= r
         IN  SelectSeq(results, LAMBDA e : e.relevance = highest)
                 \o SortByRelevance(SelectSeq(results, LAMBDA e : e.relevance # highest))

\* The function optimizedSchoolSearch memoizes
SchoolSearch(list, query) ==
    IF trim[query] = <<>> THEN <<>>
    ELSE LET searchTerm == trim[toLowerCase[query]]
             scored == [i \in 1..Len(list) |->
                          [school |-> list[i], relevance |-> Relevance(list[i], searchTerm)]]
             results == SortByRelevance(SelectSeq(scored, LAMBDA e : e.relevance > 0))
         IN  SubSeq(results, 1, Min(Len(results), MaxSearchResults))

\* Mutant of SearchKey: the key without the length of the list.
SearchKey_WithoutLength(list, query) == <<"search_", toLowerCase[query], "_", 0>>

\* `search_${query.toLowerCase()}_${schools.length}`
SearchKey(list, query) == <<"search_", toLowerCase[query], "_", Len(list)>>

\* The queries searched for
Queries == {<<" ">>, <<"A", "b">>, <<"c", " ">>, <<"n", "1">>}

\* optimizedSchoolSearch(records, query) is called.
OptimizedSchoolSearch(query) ==
    /\ Memoized("optimizedSchoolSearch", <<>>, query, SearchKey(records, query),
                SearchTtlMs, SchoolSearch(records, query))
    /\ UNCHANGED <<records, nonQueryVars>>

\* The filters objects optimizedSchoolFilter is called with next to the
\* search
MemoCriteria == {[ranking |-> <<1, 10>>]}

\* The queries searched for next to the filter
MemoQueries == {<<"A", "b">>, <<"c", " ">>}

NextMemo ==
    \/ \E filters \in MemoCriteria : OptimizedSchoolFilter(filters)
    \/ \E query \in MemoQueries : OptimizedSchoolSearch(query)
    \/ LoadRecords(MemoRecordLists)
    \/ ClearMemoCache
    \/ QueryTick

\* The SchoolFilters objects filterSchools is called with next to the
\* memoized filter: the ranking ranges
RankingCriteria == {[rankingRange |-> range] : range \in FilterValues("rankingRange")}

InitQuery ==
    /\ records \in MemoRecordLists
    /\ memoCache = <<>>
    /\ lastCall = NoCall
    /\ RateConstructed /\ CacheConstructed /\ WrapConstructed /\ SchoolsConstructed
    /\ BatchNotCalled /\ ParseNotCalled

NextQuery ==
    \/ \E filters \in RankingCriteria : FilterSchools(filters)
    \/ \E filters \in OptCriteria : OptimizedSchoolFilter(filters)
    \/ LoadRecords(MemoRecordLists)
    \/ ClearMemoCache
    \/ QueryTick

SpecQuery == InitQuery /\ [][NextQuery]_vars

SpecMemo == InitQuery /\ [][NextMemo]_vars

InitSearch ==
    /\ records \in SearchRecordLists
    /\ memoCache = <<>>
    /\ lastCall = NoCall
    /\ RateConstructed /\ CacheConstructed /\ WrapConstructed /\ SchoolsConstructed
    /\ BatchNotCalled /\ ParseNotCalled

NextSearch ==
    \/ \E query \in Queries : OptimizedSchoolSearch(query)
    \/ LoadRecords(SearchRecordLists)
    \/ ClearMemoCache

SpecSearch == InitSearch /\ [][NextSearch]_vars

----------------------------------------------------------------------------
(* Ranking ranges and unranked schools                                     *)

\* The last call was a filter call whose criteria carry a ranking range.
RankingSupplied ==
    \/ lastCall.op = "filterSchools" /\ "rankingRange" \in DOMAIN lastCall.filters
    \/ lastCall.op = "optimizedSchoolFilter" /\ "ranking" \in DOMAIN lastCall.filters

\* C16: whenever a ranking range is supplied in the criteria, whatever its
\* bounds, no school without a ranking is in the result of filterSchools or
\* of the memoized optimizedSchoolFilter.
C16_UnrankedExcluded ==
    RankingSupplied =>
        \A i \in 1..Len(lastCall.result) : lastCall.result[i].ranking # <<>>

\* The same for the calls other than optimizedSchoolFilter with the range
\* from 1 to 1000
C16_ExceptFullRange ==
    (RankingSupplied /\ ~(/\ lastCall.op = "optimizedSchoolFilter"
                          /\ lastCall.filters.ranking = <<1, 1000>>))
        => \A i \in 1..Len(lastCall.result) : lastCall.result[i].ranking # <<>>

----------------------------------------------------------------------------
(* Search results                                                          *)

\* The last call was a search.
Searched == lastCall.op = "optimizedSchoolSearch"

SubstringOnly(school, term) ==
    LET fields == {school.name, school.address, school.postcode, school.borough}
    IN  /\ \E text \in fields : contains(term, text)
        /\ \A text \in fields : ~exactMatch(term, text)

\* C18: when the query is the full name of a school, the relevance of that
\* school is strictly higher than the relevance of every school that
\* matches the query only as a substring.
C18_FullNameOutranksSubstring ==
    (Searched /\ ~lastCall.cached) =>
        \A a, b \in 1..Len(lastCall.result) :
            (/\ lastCall.result[a].school.name = lastCall.query
             /\ SubstringOnly(lastCall.result[b].school, lastCall.query))
                => lastCall.result[a].relevance > lastCall.result[b].relevance

----------------------------------------------------------------------------
(* Validity window of memoized results                                     *)

\* The TTL, the key and the fresh result of a memoized call
CallTtl(call) == IF call.op = "optimizedSchoolFilter" THEN FilterTtlMs ELSE SearchTtlMs

CallKey(call) ==
    IF call.op = "optimizedSchoolFilter"
    THEN <<"filter_", Stringify(call.filters), "_", Len(call.list)>>
    ELSE <<"search_", toLowerCase[call.query], "_", Len(call.list)>>

CallFresh(call) ==
    IF call.op = "optimizedSchoolFilter"
    THEN SchoolFilter(call.list, call.filters)
    ELSE SchoolSearch(call.list, call.query)

\* C19: a memoized filter or search call returns a stored result without
\* running the operation only while less than the TTL has passed since the
\* result was stored (60 s for filters, 300 s for search); at or after the
\* TTL the operation runs again and its result replaces the entry, so no
\* result older than the TTL is returned.
C19_ValidityWindow ==
    [][(lastCall' # lastCall) =>
          LET call == lastCall'
              stored == MapGet(memoCache, CallKey(call))
          IN  /\ call.op \in {"optimizedSchoolFilter", "optimizedSchoolSearch"}
              /\ CallTtl(call) = (IF call.op = "optimizedSchoolFilter" THEN 60000 ELSE 300000)
              /\ IF stored # Undefined /\ stored.age < CallTtl(call)
                 THEN /\ call.cached
                      /\ call.result = stored.value
                      /\ memoCache' = memoCache
                 ELSE /\ ~call.cached
                      /\ call.result = CallFresh(call)
                      /\ MapGet(memoCache', CallKey(call)) = [value |-> call.result, age |-> 0]
                      /\ \A i \in 1..Len(memoCache) :
                            memoCache[i].key # CallKey(call)
                                => MapGet(memoCache', memoCache[i].key) = memoCache[i].value]_vars

\* A search found an entry stored exactly the TTL ago under its key, ran
\* again and stored its result in place of the entry.
C19_RecomputedAtTtl ==
    /\ Searched /\ ~lastCall.cached
    /\ lastCall.found = <<SearchTtlMs>>
    /\ lastCall.result # <<>>
    /\ MapGet(memoCache, CallKey(lastCall)) = [value |-> lastCall.result, age |-> 0]

----------------------------------------------------------------------------
(* parseSchoolData: text and patterns                                      *)
(*                                                                         *)
(* The text of the markdown content is a sequence of tokens, a token being *)
(* a piece of text that every pattern of the parser takes or leaves as a   *)
(* whole: a number, a word, a punctuation mark, a postcode.                *)

\* String.prototype.includes: the tokens of needle occur in a row.
IncludesTokens(text, needle) ==
    \E p \in 1..(Len(text) - Len(needle) + 1) :
        SubSeq(text, p, p + Len(needle) - 1) = needle

\* String.prototype.startsWith
StartsWithTokens(text, prefix) ==
    Len(text) >= Len(prefix) /\ SubSeq(text, 1, Len(prefix)) = prefix

\* Tokens that hold another piece of text the parser looks for
TokenHolds(token, text) ==
    \/ token = text
    \/ <<token, text>> \in
         {<<"State Primary", "Primary">>, <<"LONDON SCHOOLS", "SCHOOLS">>,
          <<"BUCKINGHAMSHIRE SCHOOLS", "SCHOOLS">>, <<"KENT SCHOOLS", "SCHOOLS">>,
          <<"Free", "free">>}

\* includes of a piece of text that lies within one token
IncludesText(text, piece) == \E p \in 1..Len(text) : TokenHolds(text[p], piece)

\* The first run of digits of a token and its value under parseInt, for the
\* tokens that hold digits
Digits(token) ==
    CASE token = "0" -> <<0>>
      [] token = "1" -> <<1>>
      [] token = "2" -> <<2>>
      [] token = "3" -> <<3>>
      [] token = "5" -> <<5>>
      [] token = "7" -> <<7>>
      [] token = "9th" -> <<9>>
      [] token = "50" -> <<50>>
      [] token = "360" -> <<360>>
      [] token = "2025" -> <<2025>>
      [] token = "25,000" -> <<25>>
      [] OTHER -> <<>>

\* \d+ : the tokens that are digits and nothing else
IsNumber(token) == Digits(token) # <<>> /\ token \notin {"9th", "25,000"}

\* [\d,]+ with the commas removed, under parseInt
Amount(token) ==
    IF token = "25,000" THEN <<25000>>
    ELSE IF IsNumber(token) THEN Digits(token) ELSE <<>>

\* [A-F0-9]{6}
HexColors == {"FF69B4", "9370DB", "00008B", "87CEEB", "228B22", "FFD700", "FF0000", "ABCDEF"}

\* [A-Z]{1,2}\d{1,2}[A-Z]?\s?\d[A-Z]{2}
Postcodes == {"N1 1AA", "EN5 4DQ"}

\* The index of the first token of a text, from position p on, that
\* satisfies a test; 0 if there is none
FirstFrom(text, p, Test(_)) ==
    IF \E q \in p..Len(text) : Test(text[q])
    THEN CHOOSE q \in p..Len(text) : Test(text[q]) /\ \A r \in p..(q - 1) : ~Test(text[r])
    ELSE 0

IsBold(token) == token = "**"

\* line.match(/^\*\*(\d+)\.\s+(.+?)\*\*$/): the id and the name, if the
\* line is the header of a school
schoolHeaderMatch(line) ==
    IF /\ Len(line) >= 6
       /\ line[1] = "**" /\ IsNumber(line[2]) /\ line[3] = "."
       /\ line[4] \in Whitespace
       /\ line[Len(line)] = "**"
    THEN LET rest == SubSeq(line, 5, Len(line) - 1)
         IN  <<[id |-> line[2],
                name |-> IF trimStart[rest] # <<>> THEN trimStart[rest]
                         ELSE <<rest[Len(rest)]>>]>>
    ELSE <<>>

\* line.match(/^- \*\*([^*]+):\*\*\s*(.+)$/): the key and the value, if the
\* line is a property
propertyMatch(line) ==
    LET close == FirstFrom(line, 4, IsBold)
    IN  IF /\ StartsWithTokens(line, <<"-", " ", "**">>)
           /\ close >= 6
           /\ line[close - 1] = ":"
           /\ trimStart[SubSeq(line, close + 1, Len(line))] # <<>>
        THEN <<[key |-> SubSeq(line, 4, close - 2),
                value |-> trimStart[SubSeq(line, close + 1, Len(line))]]>>
        ELSE <<>>

\* line.startsWith('- **') && line.includes('(#') && line.includes('):**')
IsLegend(line) ==
    /\ StartsWithTokens(line, <<"-", " ", "**">>)
    /\ IncludesTokens(line, <<"(#">>)
    /\ IncludesTokens(line, <<")", ":", "**">>)

\* line.match(/\(#([A-F0-9]{6})\)/)
colorMatch(line) ==
    LET at == {p \in 1..(Len(line) - 2) :
                  line[p] = "(#" /\ line[p + 1] \in HexColors /\ line[p + 2] = ")"}
    IN  IF at = {} THEN <<>>
        ELSE <<line[(CHOOSE p \in at : \A q \in at : p <= q) + 1]>>

\* line.match(/\*\*([^*]+)\*\*/)
typeMatch(line) ==
    LET at == {p \in 1..Len(line) :
                  /\ line[p] = "**"
                  /\ FirstFrom(line, p + 1, IsBold) > p + 1}
    IN  IF at = {} THEN <<>>
        ELSE LET p == CHOOSE q \in at : \A r \in at : q <= r
             IN  <<SubSeq(line, p + 1, FirstFrom(line, p + 1, IsBold) - 1)>>

\* typeMatch[1].replace(/:$/, '')
WithoutColon(text) ==
    IF text # <<>> /\ text[Len(text)] = ":" THEN SubSeq(text, 1, Len(text) - 1) ELSE text

----------------------------------------------------------------------------
(* parseSchoolData: the values of the properties                           *)

parseSchoolType(value) ==
    IF IncludesText(value, "Grammar") THEN "Grammar"
    ELSE IF IncludesText(value, "Private") THEN "Private"
    ELSE IF IncludesTokens(value, <<"State Primary", " ", "(Faith)">>)
         THEN "State Primary (Faith)"
    ELSE IF IncludesText(value, "State Primary") THEN "State Primary"
    ELSE IF IncludesText(value, "Comprehensive") THEN "Comprehensive"
    ELSE "Grammar"

parseGender(value) ==
    IF IncludesText(value, "Boys") THEN "Boys"
    ELSE IF IncludesText(value, "Girls") THEN "Girls"
    ELSE "Co-ed"

parseLevel(value) == IF IncludesText(value, "Primary") THEN "Primary" ELSE "Secondary"

\* The values of the enum SchoolColor
SchoolColors == {"FF69B4", "9370DB", "00008B", "87CEEB", "228B22", "FFD700", "FF0000"}

\* SchoolColor.OTHER
OtherColor == <<"#", "FF0000">>

parseColor(value) ==
    LET at == {p \in 1..(Len(value) - 1) : value[p] = "#" /\ value[p + 1] \in HexColors}
    IN  IF at = {} THEN OtherColor
        ELSE LET hex == value[(CHOOSE p \in at : \A q \in at : p <= q) + 1]
             IN  IF hex \in SchoolColors THEN <<"#", hex>> ELSE OtherColor

\* The token of the pound sign
PoundSign == "GBP"

\* The amount after the first pound sign that is followed by one, from
\* position p on
PoundAmount(value, p) ==
    LET at == {q \in p..(Len(value) - 1) : value[q] = PoundSign /\ Amount(value[q + 1]) # <<>>}
    IN  IF at = {} THEN <<>>
        ELSE Amount(value[(CHOOSE q \in at : \A r \in at : q <= r) + 1])

\* The match of "voluntary", text without a pound sign, a pound sign and
\* an amount, whatever the case of the letters: the pound sign that follows
\* "voluntary" first has to be followed by an amount
voluntaryMatch(value) ==
    LET at == {p \in 1..Len(value) :
                  /\ value[p] \in {"voluntary", "Voluntary"}
                  /\ \E q \in (p + 1)..(Len(value) - 1) :
                        /\ value[q] = PoundSign
                        /\ \A r \in (p + 1)..(q - 1) : value[r] # PoundSign
                        /\ Amount(value[q + 1]) # <<>>}
    IN  IF at = {} THEN <<>>
        ELSE PoundAmount(value, (CHOOSE p \in at : \A q \in at : p <= q) + 1)

parseCost(value) ==
    IF IncludesText(value, "free")
    THEN [amount |-> 0, currency |-> "GBP", period |-> "year", isFree |-> TRUE,
          voluntaryContribution |-> voluntaryMatch(value), includesVAT |-> <<FALSE>>]
    ELSE IF PoundAmount(value, 1) # <<>>
    THEN [amount |-> PoundAmount(value, 1)[1], currency |-> "GBP", period |-> "year",
          isFree |-> FALSE, voluntaryContribution |-> <<>>,
          includesVAT |-> <<IncludesText(value, "(inc. VAT)")>>]
    ELSE [amount |-> 0, currency |-> "GBP", period |-> "year", isFree |-> TRUE,
          voluntaryContribution |-> <<>>, includesVAT |-> <<>>]

HoldsDigits(token) == Digits(token) # <<>>

\* Tokens that hold a run of four digits
HoldsYear(token) == token = "2025"

\* parseRanking: the first run of digits is the position ("top N" is looked
\* at only when the text holds no digit, and then does not match either)
parseRanking(value) ==
    IF trim[value] = <<>> THEN <<>>
    ELSE <<[position |-> IF FirstFrom(value, 1, HoldsDigits) # 0
                         THEN Digits(value[FirstFrom(value, 1, HoldsDigits)])[1]
                         ELSE 50,
            source |-> value,
            year |-> IF FirstFrom(value, 1, HoldsYear) # 0
                     THEN Digits(value[FirstFrom(value, 1, HoldsYear)])
                     ELSE <<>>]>>

\* value.match(/(\d)\/5/): the digit in front of the first "/5" that has one
parseCompetitiveness(value) ==
    LET at == {p \in 2..Len(value) : value[p] = "/5" /\ IsNumber(value[p - 1])}
    IN  IF at = {} THEN 3
        ELSE Digits(value[(CHOOSE p \in at : \A q \in at : p <= q) - 1])[1] % 10

IsPostcode(token) == token \in Postcodes

\* The loop of parseAddressInfo from line i upwards, county being what it
\* has set so far
RECURSIVE ScanUp(_, _, _)
ScanUp(docLines, i, county) ==
    IF i = 0 THEN [borough |-> <<>>, county |-> county]
    ELSE LET line == trim[docLines[i]]
             seen == IF IncludesText(line, "LONDON SCHOOLS") THEN "London"
                     ELSE IF IncludesText(line, "BUCKINGHAMSHIRE SCHOOLS")
                          THEN "Buckinghamshire"
                     ELSE IF IncludesText(line, "KENT SCHOOLS") THEN "Kent"
                     ELSE county
         IN  IF StartsWithTokens(line, <<"###", " ">>) /\ ~IncludesText(line, "SCHOOLS")
             THEN [borough |-> trim[SubSeq(line, 2, Len(line))], county |-> seen]
             ELSE ScanUp(docLines, i - 1, seen)

parseAddressInfo(address, currentLineIndex, docLines) ==
    [postcode |-> IF FirstFrom(address, 1, IsPostcode) # 0
                  THEN <<address[FirstFrom(address, 1, IsPostcode)]>> ELSE <<>>,
     borough |-> ScanUp(docLines, currentLineIndex, "London").borough,
     county |-> ScanUp(docLines, currentLineIndex, "London").county]

\* Mutant of isValidSchool: a school is valid without an address.
isValidSchool_WithoutAddress(school) ==
    /\ school.id # ""
    /\ school.name # <<>>

\* A string or an array that is not empty; every other value a school
\* holds is truthy or defined.
isValidSchool(school) ==
    /\ school.id # ""
    /\ school.name # <<>>
    /\ school.address # <<>>
    /\ school.postcode # <<>>
    /\ school.borough # <<>>

----------------------------------------------------------------------------
(* parseSchoolData                                                         *)

\* Mutant of NewSchool: a school starts without coordinates.
NewSchool_WithoutCoordinates(header) ==
    [id |-> header.id, name |-> header.name, address |-> <<>>, postcode |-> <<>>,
     borough |-> <<>>, county |-> "London", schoolType |-> "Grammar", gender |-> "Co-ed",
     level |-> "Secondary", color |-> OtherColor,
     cost |-> [amount |-> 0, currency |-> "GBP", period |-> "year", isFree |-> TRUE,
               voluntaryContribution |-> <<>>, includesVAT |-> <<>>],
     competitiveness |-> 3, notes |-> <<>>, website |-> <<>>,
     coordinates |-> <<>>, ranking |-> <<>>]

\* The school a header starts
NewSchool(header) ==
    [id |-> header.id, name |-> header.name, address |-> <<>>, postcode |-> <<>>,
     borough |-> <<>>, county |-> "London", schoolType |-> "Grammar", gender |-> "Co-ed",
     level |-> "Secondary", color |-> OtherColor,
     cost |-> [amount |-> 0, currency |-> "GBP", period |-> "year", isFree |-> TRUE,
               voluntaryContribution |-> <<>>, includesVAT |-> <<>>],
     competitiveness |-> 3, notes |-> <<>>, website |-> <<>>,
     coordinates |-> <<Coord(0, 0)>>, ranking |-> <<>>]

\* The switch on the key of a property
WithProperty(school, key, value, i) ==
    CASE key = <<"School Type">> -> [school EXCEPT !.schoolType = parseSchoolType(value)]
      [] key = <<"Type">> ->
           [school EXCEPT !.gender = parseGender(value), !.level = parseLevel(value)]
      [] key = <<"Color">> -> [school EXCEPT !.color = parseColor(value)]
      [] key = <<"Address">> ->
           [school EXCEPT !.address = value,
                          !.postcode = parseAddressInfo(value, i, lines).postcode,
                          !.borough = parseAddressInfo(value, i, lines).borough,
                          !.county = parseAddressInfo(value, i, lines).county]
      [] key = <<"Ranking">> -> [school EXCEPT !.ranking = parseRanking(value)]
      [] key = <<"Annual Cost">> -> [school EXCEPT !.cost = parseCost(value)]
      [] key = <<"Competitiveness">> ->
           [school EXCEPT !.competitiveness = parseCompetitiveness(value)]
      [] key = <<"Notes">> -> [school EXCEPT !.notes = value]
      [] OTHER -> school

\* schools with the current school pushed if there is one and it is valid
Flushed ==
    IF currentSchool # <<>> /\ isValidSchool(currentSchool[1])
    THEN Append(parsedSchools, currentSchool[1])
    ELSE parsedSchools

\* One pass of the loop over the lines.
ParseLine ==
    /\ parsePc = "loop"
    /\ lineIndex <= Len(lines)
    /\ LET line == trim[lines[lineIndex]]
       IN  IF IsLegend(line)
           THEN /\ colorCoding' =
                     IF colorMatch(line) # <<>> /\ typeMatch(line) # <<>>
                     THEN MapSet(colorCoding, WithoutColon(typeMatch(line)[1]),
                                 <<"#", colorMatch(line)[1]>>)
                     ELSE colorCoding
                /\ UNCHANGED <<currentSchool, schoolIndex, parsedSchools>>
           ELSE IF schoolHeaderMatch(line) # <<>>
           THEN /\ parsedSchools' = Flushed
                /\ schoolIndex' = Digits(schoolHeaderMatch(line)[1].id)[1]
                /\ currentSchool' = <<NewSchool(schoolHeaderMatch(line)[1])>>
                /\ UNCHANGED colorCoding
           ELSE IF /\ currentSchool # <<>>
                   /\ StartsWithTokens(line, <<"-", " ", "**">>)
                   /\ propertyMatch(line) # <<>>
           THEN /\ currentSchool' =
                     <<WithProperty(currentSchool[1], propertyMatch(line)[1].key,
                                    propertyMatch(line)[1].value, lineIndex)>>
                /\ UNCHANGED <<schoolIndex, parsedSchools, colorCoding>>
           ELSE UNCHANGED <<currentSchool, schoolIndex, parsedSchools, colorCoding>>
    /\ lineIndex' = lineIndex + 1
    /\ UNCHANGED <<lines, parsePc, nonParseVars>>

\* After the last line the current school is added if it is valid, and the
\* schools and the colour coding are returned.
ParseReturn ==
    /\ parsePc = "loop"
    /\ lineIndex > Len(lines)
    /\ parsedSchools' = Flushed
    /\ parsePc' = "done"
    /\ UNCHANGED <<lines, lineIndex, currentSchool, schoolIndex, colorCoding, nonParseVars>>

----------------------------------------------------------------------------
(* parseSchoolData: the documents parsed                                   *)

HeaderLine(id, name) == <<"**", id, ".", " ">> \o name \o <<"**">>

PropertyLine(key, value) == <<"-", " ", "**", key, ":", "**", " ">> \o value

\* The headers of two schools; the second is indented
AlphaHeader == HeaderLine("1", <<"Alpha">>)

BetaHeader == <<" ">> \o HeaderLine("2", <<"Beta", " ", "School">>)

AddressLine == PropertyLine("Address", <<"High St", ",", " ", "N1 1AA">>)

\* The blocks of the schools of a document: one without an address, one
\* whose address has no postcode, two with an address and a postcode, the
\* second below a borough of its own, one with every property, and one
\* with a ranking in words that names a year and a competitiveness of 0/5
Blocks ==
    {<<AlphaHeader>>,
     <<BetaHeader, PropertyLine("Address", <<"Some Address">>)>>,
     <<AlphaHeader, AddressLine, PropertyLine("Notes", <<"selective">>)>>,
     <<BetaHeader, <<"###", " ", "EALING">>, AddressLine>>,
     <<BetaHeader,
       PropertyLine("School Type", <<"State Primary", " ", "(Faith)">>),
       PropertyLine("Type", <<"Girls", " ", "Secondary">>),
       PropertyLine("Color", <<"#", "FF69B4", " ", "(Pink)">>),
       PropertyLine("Address", <<"Queens Road", ",", " ", "EN5 4DQ">>),
       PropertyLine("Ranking", <<"9th", " ", "nationally", " ", "2025">>),
       PropertyLine("Annual Cost",
                    <<"Free", " ", "(", "voluntary", " ", "fund", " ", "GBP", "360", ")">>),
       PropertyLine("Competitiveness", <<"5", "/5">>),
       PropertyLine("Notes", <<"No", " ", "catchment">>)>>,
     <<AlphaHeader, AddressLine,
       PropertyLine("Ranking", <<"School", " ", "of", " ", "the", " ", "Year", " ", "2025">>),
       PropertyLine("Competitiveness", <<"0", "/5">>)>>}

\* What precedes the first school: nothing; a legend, a county and a
\* borough; or lines that give no borough
Preludes ==
    {<<>>,
     <<<<"-", " ", "**", "Pink", " ", "(#", "FF69B4", ")", ":", "**", " ", "Girls">>,
       <<>>,
       <<"##", " ", "KENT SCHOOLS">>,
       <<"###", " ", "BARNET">>>>,
     <<<<"###", " ", "KENT SCHOOLS">>,
       PropertyLine("Notes", <<"selective">>),
       <<"**", "3", ".", " ", "Gamma">>>>}

\* Most schools of a document
MaxBlocks == 3

\* markdownContent.split('\n'): an empty content is one empty line
Split(content) == IF content = <<>> THEN << <<>> >> ELSE content

Documents ==
    {Split(prelude \o Concat(blocks)) :
        prelude \in Preludes, blocks \in UNION {[1..n -> Blocks] : n \in 0..MaxBlocks}}

InitParse ==
    /\ lines \in Documents
    /\ parsePc = "loop"
    /\ lineIndex = 1
    /\ currentSchool = <<>>
    /\ schoolIndex = 0
    /\ parsedSchools = <<>>
    /\ colorCoding = <<>>
    /\ RateConstructed /\ CacheConstructed /\ WrapConstructed /\ SchoolsConstructed
    /\ BatchNotCalled /\ QueryConstructed

NextParse == ParseLine \/ ParseReturn

SpecParse == InitParse /\ [][NextParse]_vars

----------------------------------------------------------------------------
(* Blocks and the records emitted                                          *)

\* The lines that are numbered headers
Headers == {i \in 1..Len(lines) : schoolHeaderMatch(trim[lines[i]]) # <<>>}

\* The last line of the block of a header: the line before the next header
\* or the last line of the document
BlockEnd(h) ==
    IF \E i \in Headers : i > h
    THEN (CHOOSE i \in Headers : i > h /\ \A j \in Headers : j > h => i <= j) - 1
    ELSE Len(lines)

\* The address lines of the block of a header
AddressLines(h) ==
    {i \in (h + 1)..BlockEnd(h) :
        /\ ~IsLegend(trim[lines[i]])
        /\ propertyMatch(trim[lines[i]]) # <<>>
        /\ propertyMatch(trim[lines[i]])[1].key = <<"Address">>}

\* A subsection header, the borough context of the lines below it
IsBoroughHeader(line) ==
    /\ Len(line) >= 3 /\ line[1] = "###" /\ line[2] \in Whitespace
    /\ \A p \in 1..Len(line) :
          line[p] \notin {"SCHOOLS", "LONDON SCHOOLS", "BUCKINGHAMSHIRE SCHOOLS",
                          "KENT SCHOOLS"}

\* The completeness predicate on the block of a header when it is flushed:
\* it has an address, the last one with a postcode and below a borough
BlockComplete(h) ==
    /\ AddressLines(h) # {}
    /\ LET last == CHOOSE i \in AddressLines(h) : \A j \in AddressLines(h) : j <= i
       IN  /\ \E p \in 1..Len(lines[last]) : lines[last][p] \in Postcodes
           /\ \E j \in 1..last : IsBoroughHeader(trim[lines[j]])

CompleteHeaders == {h \in Headers : BlockComplete(h)}

\* The school the lines from i to the end of a block make of a school
RECURSIVE BlockSchool(_, _, _)
BlockSchool(school, i, end) ==
    IF i > end THEN school
    ELSE LET line == trim[lines[i]]
         IN  BlockSchool(IF ~IsLegend(line) /\ propertyMatch(line) # <<>>
                         THEN WithProperty(school, propertyMatch(line)[1].key,
                                           propertyMatch(line)[1].value, i)
                         ELSE school,
                         i + 1, end)

\* C20: parseSchoolData emits, in document order, exactly one school for
\* each numbered header whose block passes the completeness predicate when
\* it is flushed, with the id and the name of that header; a block without
\* an address, a recognizable postcode or a borough context emits nothing,
\* and the schools of the blocks around it are what their own blocks give.
C20_OneRecordPerCompleteBlock ==
    parsePc = "done" =>
        /\ Len(parsedSchools) = Cardinality(CompleteHeaders)
        /\ \A k \in 1..Len(parsedSchools) :
              LET h == Nth(CompleteHeaders, k)
                  header == trim[lines[h]]
              IN  /\ parsedSchools[k].id = header[2]
                  /\ parsedSchools[k].name = SubSeq(header, 5, Len(header) - 1)
                  /\ parsedSchools[k].address # <<>>
                  /\ parsedSchools[k] =
                       BlockSchool(NewSchool(schoolHeaderMatch(header)[1]), h + 1, BlockEnd(h))

\* A document was parsed in which a block without an address lies between
\* two complete blocks, and the schools of these two were emitted.
C20_DroppedBetweenComplete ==
    /\ parsePc = "done"
    /\ Len(parsedSchools) = 2
    /\ \E a, b, c \in Headers :
          /\ a < b /\ b < c
          /\ BlockComplete(a) /\ AddressLines(b) = {} /\ BlockComplete(c)
          /\ parsedSchools[1].address # parsedSchools[2].address

----------------------------------------------------------------------------
(* County and borough of the records emitted                               *)

\* The county a section header names, if the line is one
CountyOf(line) ==
    IF \E p \in 1..Len(line) : line[p] = "LONDON SCHOOLS" THEN <<"London">>
    ELSE IF \E p \in 1..Len(line) : line[p] = "BUCKINGHAMSHIRE SCHOOLS"
         THEN <<"Buckinghamshire">>
    ELSE IF \E p \in 1..Len(line) : line[p] = "KENT SCHOOLS" THEN <<"Kent">>
    ELSE <<>>

\* The last line up to line a that satisfies a test; 0 if there is none
NearestAbove(a, Test(_)) ==
    IF \E j \in 1..a : Test(trim[lines[j]])
    THEN CHOOSE j \in 1..a : Test(trim[lines[j]]) /\ \A i \in (j + 1)..a : ~Test(trim[lines[i]])
    ELSE 0

IsCountyHeader(line) == CountyOf(line) # <<>>

\* The last address line of the block of a header that has one
LastAddress(h) == CHOOSE i \in AddressLines(h) : \A j \in AddressLines(h) : j <= i

\* C21: every emitted school takes its county from the nearest county
\* section header above it and its borough from the nearest subsection
\* header above it.
C21_CountyAndBoroughFromHeaders ==
    parsePc = "done" =>
        \A k \in 1..Len(parsedSchools) :
            LET a == LastAddress(Nth(CompleteHeaders, k))
                section == NearestAbove(a, IsCountyHeader)
                subsection == NearestAbove(a, IsBoroughHeader)
            IN  /\ section # 0 => parsedSchools[k].county = CountyOf(trim[lines[section]])[1]
                /\ subsection # 0
                /\ parsedSchools[k].borough =
                     SubSeq(trim[lines[subsection]], 3, Len(trim[lines[subsection]]))

\* The borough alone
C21_BoroughFromHeader ==
    parsePc = "done" =>
        \A k \in 1..Len(parsedSchools) :
            LET subsection == NearestAbove(LastAddress(Nth(CompleteHeaders, k)), IsBoroughHeader)
            IN  /\ subsection # 0
                /\ parsedSchools[k].borough =
                     SubSeq(trim[lines[subsection]], 3, Len(trim[lines[subsection]]))

----------------------------------------------------------------------------
(* Calls of the geocoder by validateSchool                                 *)

\* C22: validateSchool calls the geocoder exactly once when the coordinates
\* of the school are absent or out of range and its address is not empty,
\* and never otherwise: with valid coordinates no call is made, with no
\* address an error issue on coordinates is pushed without a call.
C22_GeocoderCalledOnce ==
    \A k \in 1..Len(tasks) :
        tasks[k].phase # "idle" =>
            /\ tasks[k].geocoderCalls =
                 IF ~InRange(original[k].coordinates) /\ original[k].address # <<>>
                 THEN 1 ELSE 0
            /\ (~InRange(original[k].coordinates) /\ original[k].address = <<>>)
                 => /\ tasks[k].phase = "returned"
                    /\ Len(CoordinateIssues(tasks[k])) = 1
                    /\ CoordinateIssues(tasks[k])[1].severity = "error"
            /\ InRange(original[k].coordinates) => CoordinateIssues(tasks[k]) = <<>>

\* A school without valid coordinates and without an address was validated.
C22_NoAddressNoCall ==
    /\ Len(tasks) = 1
    /\ tasks[1].phase = "returned"
    /\ ~InRange(original[1].coordinates)
    /\ original[1].address = <<>>
    /\ tasks[1].geocoderCalls = 0

----------------------------------------------------------------------------
(* Chunks of validateSchoolData                                            *)

\* The validations begun and not yet settled
InFlight == {k \in 1..Len(tasks) : tasks[k].phase = "geocoding"}

\* C23: while a list is validated at most batchSize validations are in
\* flight; a validation starts only at the loop test, in the chunk at i,
\* when every validation of the chunks before it has returned; i moves on
\* by batchSize only when the chunk at i has returned, out of the pause
\* when a chunk follows and straight from Promise.all when none does; and
\* the pause is entered only when a chunk follows.
C23_ChunksInTurn ==
    [][/\ Cardinality(InFlight') <= batchSize
       /\ \A k \in 1..Len(tasks) :
             (tasks[k].phase = "idle" /\ tasks'[k].phase # "idle") =>
                 /\ batchPc = "loop"
                 /\ batchI < k /\ k <= batchI + batchSize
                 /\ \A j \in 1..batchI : tasks[j].phase = "returned"
       /\ batchI' # batchI =>
             /\ batchI' = batchI + batchSize
             /\ \A j \in 1..Len(tasks) :
                   j <= batchI + batchSize => tasks[j].phase = "returned"
             /\ batchPc = (IF batchI + batchSize < Len(schools)
                           THEN "pausing" ELSE "awaiting")
       /\ batchPc' = "pausing" => batchI + batchSize < Len(schools)
       /\ (batchPc = "pausing" /\ batchPc' # "pausing") =>
             (batchPc' = "loop" /\ batchI' = batchI + batchSize)]_vars

\* The second chunk is in flight, the first one having returned.
C23_SecondChunkInFlight ==
    /\ batchI = batchSize
    /\ batchPc = "awaiting"
    /\ \E k \in InFlight : k > batchSize
    /\ \A j \in 1..batchSize : tasks[j].phase = "returned"

----------------------------------------------------------------------------
(* Entries of the memo cache shared between calls                          *)

\* The queries of the searches that meet in the memo cache differ in the
\* case of a letter only; the filter called next to them
ShareQueries == {<<"A", "b">>, <<"a", "b">>}

ShareCriteria == {[ranking |-> <<1, 10>>]}

NextShare ==
    \/ \E filters \in ShareCriteria : OptimizedSchoolFilter(filters)
    \/ \E query \in ShareQueries : OptimizedSchoolSearch(query)
    \/ LoadRecords(MemoRecordLists)
    \/ ClearMemoCache
    \/ QueryTick

SpecShare == InitQuery /\ [][NextShare]_vars

\* The calls whose keys are compared: any of the criteria and of the
\* queries, also one with a trailing space, on any of the lists
ShareCalls ==
    {[NoCall EXCEPT !.op = "optimizedSchoolFilter", !.filters = filters, !.list = list] :
        filters \in OptCriteria, list \in MemoRecordLists}
    \cup {[NoCall EXCEPT !.op = "optimizedSchoolSearch", !.query = query, !.list = list] :
        query \in ShareQueries \cup Queries \cup {<<"a", "b", " ">>},
        list \in MemoRecordLists}

\* Two calls of one function with the same criteria or the same query
SameCall(c1, c2) ==
    /\ c1.op = c2.op
    /\ IF c1.op = "optimizedSchoolFilter" THEN c1.filters = c2.filters
                                          ELSE c1.query = c2.query

\* Two calls of one function on lists of one length with the same criteria
\* or with queries that differ at most in the case of their letters
SameUpToCase(c1, c2) ==
    /\ c1.op = c2.op
    /\ Len(c1.list) = Len(c2.list)
    /\ IF c1.op = "optimizedSchoolFilter" THEN c1.filters = c2.filters
                                          ELSE toLowerCase[c1.query] = toLowerCase[c2.query]

\* The call before this one used the entry this call was answered from.
SharesEntry ==
    /\ lastCall' # lastCall
    /\ lastCall'.cached
    /\ lastCall # NoCall
    /\ CallKey(lastCall') = CallKey(lastCall)

\* C24 as stated: a call answered from the memo cache shares its entry
\* only with calls of the same function with the same criteria or the same
\* query.
C24_DistinctCallsNeverShare == [][SharesEntry => SameCall(lastCall, lastCall')]_vars

\* C24: a result returned from the memo cache is the result of the call's
\* own criteria or query on a list of the length of the call's list; two
\* calls have the same key exactly when they are calls of one function on
\* lists of one length with the same criteria or with queries equal up to
\* the case of their letters, so a filter and a search, two different
\* criteria, and two queries that differ otherwise never share an entry.
C24_SharedOnlyUpToCase ==
    [][(lastCall' # lastCall) =>
          LET call == lastCall'
          IN  /\ call.cached =>
                    \E list \in MemoRecordLists :
                        /\ Len(list) = Len(call.list)
                        /\ call.result = CallFresh([call EXCEPT !.list = list])
              /\ SharesEntry => SameUpToCase(lastCall, call)
              /\ \A other \in ShareCalls :
                    (CallKey(other) = CallKey(call)) <=> SameUpToCase(other, call)]_vars

\* A search was answered from the memo cache while the cache also held the
\* result of a filter on a list of the same length.
C24_SearchBesideFilter ==
    /\ Searched /\ lastCall.cached
    /\ lastCall.query = <<"a", "b">>
    /\ lastCall.result # <<>>
    /\ Len(memoCache) = 2
    /\ \E filters \in ShareCriteria : MapHas(memoCache, FilterKey(lastCall.list, filters))

----------------------------------------------------------------------------
(* Relevance as a sum of tiers                                             *)

\* The term occurs in a text at position p, the case of letters ignored.
Occurs(text, term, p) ==
    /\ p >= 1 /\ p + Len(term) - 1 <= Len(text)
    /\ \A i \in 1..Len(term) : LowerChar(text[p + i - 1]) = LowerChar(term[i])

\* The term occurs at p as a whole word: no word character next to it.
OccursAsWord(text, term, p) ==
    /\ Occurs(text, term, p)
    /\ p = 1 \/ text[p - 1] \in NonWordChars
    /\ p + Len(term) > Len(text) \/ text[p + Len(term)] \in NonWordChars

\* The highest tier a field reaches for a term
Tier(text, term) ==
    IF \E p \in 1..Len(text) : OccursAsWord(text, term, p) THEN "word"
    ELSE IF Occurs(text, term, 1) THEN "prefix"
    ELSE IF \E p \in 1..Len(text) : Occurs(text, term, p) THEN "substring"
    ELSE "none"

\* The score of a tier: for the whole word, the prefix and the substring
TierScore(tier, word, prefix, substring) ==
    CASE tier = "word" -> word
      [] tier = "prefix" -> prefix
      [] tier = "substring" -> substring
      [] OTHER -> 0

FieldScores(school, term) ==
    <<TierScore(Tier(school.name, term), 100, 80, 60),
      TierScore(Tier(school.address, term), 50, 30, 30),
      TierScore(Tier(school.postcode, term), 40, 25, 0),
      TierScore(Tier(school.borough, term), 35, 20, 20)>>

\* C25: the relevance of a school in a search result is the sum of four
\* scores, one for each of name, address, postcode and borough, each the
\* score of the highest tier the field reaches for the trimmed query with
\* the case of letters ignored: name 100 / 80 / 60, address 50 / 30,
\* postcode 40 / 25, borough 35 / 20; it lies between 0 and 225. (A query
\* of whitespace only is not scored.)
C25_SumOfFieldScores ==
    (Searched /\ ~lastCall.cached /\ trim[lastCall.query] # <<>>) =>
        LET term == trim[lastCall.query]
        IN  /\ WordAt(term, 1) /\ WordAt(term, Len(term))
            /\ \A i \in 1..Len(lastCall.result) :
                  LET scores == FieldScores(lastCall.result[i].school, term)
                  IN  /\ lastCall.result[i].relevance =
                            scores[1] + scores[2] + scores[3] + scores[4]
                      /\ lastCall.result[i].relevance \in 0..225
            /\ \A k \in 1..Len(lastCall.list) :
                  LET scores == FieldScores(lastCall.list[k], term)
                  IN  (Len(lastCall.list) <= MaxSearchResults
                       /\ scores[1] + scores[2] + scores[3] + scores[4] > 0)
                          => \E i \in 1..Len(lastCall.result) :
                                 lastCall.result[i].school = lastCall.list[k]

\* A search with a capital letter in the query found one school by its
\* name as a whole word and another by substrings of three of its fields.
C25_ThreeFieldsAdded ==
    /\ Searched /\ ~lastCall.cached
    /\ lastCall.query = <<"A", "b">>
    /\ Len(lastCall.result) = 2
    /\ lastCall.result[1].school.name = <<"c", "a", "b", "c">>
    /\ lastCall.result[1].relevance = 60 + 30 + 20
    /\ lastCall.result[2].school.name = <<"A", "b">>
    /\ lastCall.result[2].relevance = 100

----------------------------------------------------------------------------
(* Confidence of the results of the geocoder                               *)

\* The candidates the provider answers with when the confidence is
\* examined: every class and type, importance (in hundredths, between 0
\* and 1 as the provider computes it) and address type
ConfidenceCandidates ==
    {[lat |-> 51, lon |-> 0, class |-> kind[1], type |-> kind[2],
      importance |-> importance, addresstype |-> addresstype] :
        kind \in {<<"amenity", "school">>, <<"amenity", "college">>,
                  <<"building", "school">>, <<"building", "yes">>},
        importance \in {0, 1, 35, 70, 100},
        addresstype \in {"amenity", "house", "road"}}

\* One caller calls geocodeAddress time and again; the provider answers
\* with one candidate.
NextConfidence ==
    \/ GeocodeAddress(2)
    \/ TimerFire(2)
    \/ /\ \E c \in ConfidenceCandidates :
              Settle(2, Response(200, <<"OK">>, [json |-> "array", items |-> <<c>>]))
       /\ UNCHANGED <<geoBatch, batchTrace, nonRateVars>>
    \/ Tick

SpecConfidence == InitRate /\ [][NextConfidence]_vars

\* result.class === 'amenity' && result.type === 'school'
IsSchoolAmenity(candidate) == candidate.class = "amenity" /\ candidate.type = "school"

----------------------------------------------------------------------------
(* Competitiveness of the records emitted                                  *)

\* school.competitiveness < 1 || school.competitiveness > 5 does not hold
CompetitivenessInRange(school) == school.competitiveness \in 1..5

\* C27: every school parseSchoolData emits has a competitiveness between 1
\* and 5, so that none fails the range check of the validator.
C27_CompetitivenessInRange ==
    \A n \in 1..Len(parsedSchools) : CompetitivenessInRange(parsedSchools[n])

----------------------------------------------------------------------------
(* Rankings in words                                                       *)

\* The text of a ranking holds no ordinal position and no "top N" phrase.
InWordsOnly(value) ==
    /\ \A p \in 1..Len(value) : value[p] # "9th"
    /\ \A p \in 1..(Len(value) - 2) :
          ~(/\ toLowerCase[<<value[p]>>] = <<"top">> \/ value[p] = "Top"
            /\ value[p + 1] \in Whitespace
            /\ IsNumber(value[p + 2]))

\* C28: a school whose Ranking text holds neither an ordinal position nor
\* a "top N" phrase, whether or not it names a year, is emitted with the
\* position 50, and a ranking range of filterSchools keeps it exactly when
\* 50 lies within the range.
C28_PlaceholderPosition ==
    \A n \in 1..Len(parsedSchools) :
        LET school == parsedSchools[n]
        IN  (school.ranking # <<>> /\ InWordsOnly(school.ranking[1].source)) =>
                /\ school.ranking[1].position = 50
                /\ \A range \in FilterValues("rankingRange") :
                      PassesFilters(school, [rankingRange |-> range])
                          <=> /\ range.min # <<>> => range.min[1] <= 50
                              /\ range.max # <<>> => 50 <= range.max[1]

----------------------------------------------------------------------------
(* Geocoding errors counted in the summary                                 *)

\* The result of a validation carries an error issue on coordinates.
HasCoordinatesError(result) ==
    \E n \in 1..Len(result.issues) :
        result.issues[n].field = "coordinates" /\ result.issues[n].severity = "error"

\* C29: in the summary validateSchoolData returns, geocodingErrors is the
\* number of schools whose result carries an error issue on coordinates,
\* whichever error the geocoder threw or the address being absent; schools
\* whose coordinates were valid or were geocoded are not among them.
C29_GeocodingErrorsCounted ==
    summary # <<>> =>
        LET results == summary[1].validationResults
        IN  /\ summary[1].geocodingErrors = Len(SelectSeq(results, HasCoordinatesError))
            /\ \A n \in 1..Len(results) :
                  HasCoordinatesError(results[n]) =>
                      /\ ~InRange(original[results[n].index].coordinates)
                      /\ results[n].geocodingResult = <<>>

----------------------------------------------------------------------------
(* App loadData: the parsed schools are validated                          *)

\* The characters of a token and of a text
Chars(token) == [i \in 1..Len(token) |-> SubSeq(token, i, i)]

Characters(text) == Concat([i \in 1..Len(text) |-> Chars(text[i])])

\* A school as the parser emits it, in the fields validateSchool reads
ParsedSchool(school) ==
    [id |-> Chars(school.id),
     name |-> Characters(school.name),
     address |-> Characters(school.address),
     schoolType |-> school.schoolType,
     gender |-> school.gender,
     level |-> school.level,
     color |-> school.color[1] \o school.color[2],
     coordinates |-> school.coordinates,
     cost |-> <<[amount |-> Number(school.cost.amount), currency |-> school.cost.currency,
                 period |-> school.cost.period]>>,
     competitiveness |-> <<school.competitiveness>>,
     website |-> <<"">>,
     notes |-> school.notes]

\* loadSchoolData() has returned the schools parsed;
\* dataValidator.validateSchoolData(parsedSchools) is called.
ValidateParsed ==
    /\ parsePc = "done"
    /\ batchPc = "idle"
    /\ schools' = [n \in 1..Len(parsedSchools) |-> ParsedSchool(parsedSchools[n])]
    /\ original' = schools'
    /\ tasks' = [n \in 1..Len(parsedSchools) |-> IdleTask]
    /\ batchPc' = "loop"
    /\ UNCHANGED <<cache, nonSchoolVars, batchI, validationResults, allIssues,
                   geocodingErrors, summary>>

\* The document is parsed, then its schools are validated. The geocoder
\* is left without answers: no call of it is awaited (C30).
NextLoad ==
    \/ ParseLine
    \/ ParseReturn
    \/ ValidateParsed
    \/ StartChunk
    \/ ChunkSettled
    \/ PauseElapsed
    \/ ReturnSummary

SpecLoad == InitParse /\ [][NextLoad]_vars

\* C30: every school the parser emits carries the coordinates (0, 0),
\* which isValidCoordinates accepts; validating the schools parsed calls
\* the geocoder for none of them, leaves the coordinates of each as they
\* are and pushes no issue on coordinates.
C30_ParsedNeverGeocoded ==
    /\ isValidCoordinates(Coord(0, 0))
    /\ \A n \in 1..Len(parsedSchools) : parsedSchools[n].coordinates = <<Coord(0, 0)>>
    /\ \A k \in 1..Len(tasks) :
          /\ tasks[k].phase \in {"idle", "returned"}
          /\ tasks[k].geocoderCalls = 0
          /\ tasks[k].geocodingResult = <<>>
          /\ schools[k].coordinates = <<Coord(0, 0)>>
          /\ CoordinateIssues(tasks[k]) = <<>>
    /\ cache = <<>>
    /\ summary # <<>> =>
          /\ summary[1].geocodingErrors = 0
          /\ \A n \in 1..Len(summary[1].issues) : summary[1].issues[n].field # "coordinates"

\* Three parsed schools were validated, one of them with an
\* issue on another field.
C30_ThreeParsedValidated ==
    /\ summary # <<>>
    /\ summary[1].totalSchools = 3
    /\ summary[1].issues # <<>>
    /\ \A k \in 1..3 : tasks[k].phase = "returned" /\ tasks[k].geocoderCalls = 0

====
